---------------------------- MODULE Spec2Model ----------------------------
(***************************************************************************)
(* A model of the test-redundancy detector (package ml): the semantic and  *)
(* legacy cluster validators and the validation stage, the pipeline        *)
(* orchestrator and its strategy selection, the result manager, the        *)
(* redundancy analyzer and the k-means clusterer.                          *)
(*                                                                         *)
(* Test names are real strings; the regular expressions of the validators  *)
(* are evaluated on them character by character.  Similarity scores and    *)
(* thresholds are integers in hundred-thousandths (0.25 is 25000).         *)
(***************************************************************************)
EXTENDS Integers, Sequences, FiniteSets, TLC

VARIABLES
    (* --- one SemanticValidator, its methods called directly *)
    test1, test2, opp_config, opp_result, intent_cache,
    (* --- ValidationStage.process *)
    val_config, clusters, val_pc, val_out,
    (* --- PipelineFactory and RedundancyPipeline.run *)
    pipelines, max_conflicts_per_cluster, pipe_last, algorithm, use_new_pipeline,
    validate_clusters, strategy, run_clusters, run_out,
    (* --- one ResultManager and its output directory *)
    results, files, rm_last, save_csv, save_written, set_count,
    (* --- one RedundancyAnalyzer *)
    thresholds, similarity_score, level, ana_clusters, semantic_vectors,
    coverage_vectors, redundancy_records, ana_pc,
    (* --- one KMeansClusterer *)
    n_clusters, vectors, km_pc, km_out,
    (* --- one KMeansClusterer that selects k by itself *)
    min_clusters_arg, min_clusters, max_clusters, ak_vectors, ak_scores, optimal_k_,
    ak_pc, ak_out,
    (* --- KMeansPipeline.postprocess_clusters *)
    mg_clusters, mg_pc, mg_out,
    (* --- one DBSCANClusterer *)
    db_min_samples_arg, db_min_samples, db_n_samples, db_pc, db_out,
    (* --- one TFIDFVectorizer *)
    tv_max_features, tv_min_df, tv_max_df, tv_use_idf, vocabulary_, idf_, document_count_,
    tv_documents, tv_fit_documents, tv_last, tv_result, tv_fit_completed,
    (* --- the registries of factories.py *)
    clusterers, reducers, fac_last, fac_kind, fac_name, fac_class, fac_result, fac_registered,
    (* --- PipelineFactory and the classes of its registry *)
    pf_pipelines, pf_last, pf_algorithm, pf_class, pf_result, pf_registered,
    (* --- one FeatureCombiner *)
    fc_semantic_dim, fc_coverage_dim, fc_normalize, fc_semantic_vectors,
    fc_coverage_vectors, fc_combined, fc_split, fc_pc,
    (* --- extract_test_name *)
    test_path, xn_result, xn_pc,
    (* --- one PHPTokenizer *)
    tk_text, tk_lowercase, tk_tokens, tk_pc,
    (* --- one run of cli.main *)
    cli_command, cli_quiet, cli_failing, cli_pc, cli_end,
    (* --- TSNEReducer.reduce *)
    tsne_perplexity, tsne_n_samples, tsne_n_dims, tsne_pc, tsne_out,
    (* --- ClusterValidator._split_by_semantics *)
    split_tests, split_pc, split_groups,
    (* --- RedundancyAnalyzer.summarize_redundancy *)
    sum_pc, red_summary,
    (* --- several SemanticValidators and their intent caches *)
    sv_config, sv_caches, sv_seen, sv_call, sv_result,
    (* --- the entropy analyzers of a RedundancyPipeline *)
    en_strategy, en_damping, en_tests, en_orchestrator, en_pipeline, en_pc, en_summary

oppVars == <<test1, test2, opp_config, opp_result, intent_cache>>
valVars == <<val_config, clusters, val_pc, val_out>>
pipeVars == <<pipelines, max_conflicts_per_cluster, pipe_last, algorithm, use_new_pipeline,
              validate_clusters, strategy, run_clusters, run_out>>
resVars == <<results, files, rm_last, save_csv, save_written, set_count>>
anaVars == <<thresholds, similarity_score, level, ana_clusters, semantic_vectors,
             coverage_vectors, redundancy_records, ana_pc>>
kmVars == <<n_clusters, vectors, km_pc, km_out>>
akVars == <<min_clusters_arg, min_clusters, max_clusters, ak_vectors, ak_scores, optimal_k_,
            ak_pc, ak_out>>

mgVars == <<mg_clusters, mg_pc, mg_out>>

dbVars == <<db_min_samples_arg, db_min_samples, db_n_samples, db_pc, db_out>>

tvVars == <<tv_max_features, tv_min_df, tv_max_df, tv_use_idf, vocabulary_, idf_,
            document_count_, tv_documents, tv_fit_documents, tv_last, tv_result,
            tv_fit_completed>>

facVars == <<clusterers, reducers, fac_last, fac_kind, fac_name, fac_class, fac_result, fac_registered>>

pfVars == <<pf_pipelines, pf_last, pf_algorithm, pf_class, pf_result, pf_registered>>

fcVars == <<fc_semantic_dim, fc_coverage_dim, fc_normalize, fc_semantic_vectors,
            fc_coverage_vectors, fc_combined, fc_split, fc_pc>>

xnVars == <<test_path, xn_result, xn_pc>>

tkVars == <<tk_text, tk_lowercase, tk_tokens, tk_pc>>

cliVars == <<cli_command, cli_quiet, cli_failing, cli_pc, cli_end>>

tsneVars == <<tsne_perplexity, tsne_n_samples, tsne_n_dims, tsne_pc, tsne_out>>

splitVars == <<split_tests, split_pc, split_groups>>

sumVars == <<sum_pc, red_summary>>

svVars == <<sv_config, sv_caches, sv_seen, sv_call, sv_result>>

enVars == <<en_strategy, en_damping, en_tests, en_orchestrator, en_pipeline, en_pc, en_summary>>

\* The components by the order in which they were added to the model.
coreVars == <<oppVars, valVars, pipeVars, resVars, anaVars, kmVars>>
extVars == <<akVars, mgVars, dbVars, tvVars, facVars, pfVars, fcVars, xnVars, tkVars,
             cliVars, tsneVars, splitVars, sumVars, svVars, enVars>>
vars == <<coreVars, extVars>>

\* What an action of one of the later components leaves unchanged.
akRest == <<coreVars, mgVars, dbVars, tvVars, facVars, pfVars, fcVars, xnVars, tkVars,
            cliVars, tsneVars, splitVars, sumVars, svVars, enVars>>
mgRest == <<coreVars, akVars, dbVars, tvVars, facVars, pfVars, fcVars, xnVars, tkVars,
            cliVars, tsneVars, splitVars, sumVars, svVars, enVars>>
dbRest == <<coreVars, akVars, mgVars, tvVars, facVars, pfVars, fcVars, xnVars, tkVars,
            cliVars, tsneVars, splitVars, sumVars, svVars, enVars>>
tvRest == <<coreVars, akVars, mgVars, dbVars, facVars, pfVars, fcVars, xnVars, tkVars,
            cliVars, tsneVars, splitVars, sumVars, svVars, enVars>>
facRest == <<coreVars, akVars, mgVars, dbVars, tvVars, pfVars, fcVars, xnVars, tkVars,
             cliVars, tsneVars, splitVars, sumVars, svVars, enVars>>
pfRest == <<coreVars, akVars, mgVars, dbVars, tvVars, facVars, fcVars, xnVars, tkVars,
            cliVars, tsneVars, splitVars, sumVars, svVars, enVars>>
fcRest == <<coreVars, akVars, mgVars, dbVars, tvVars, facVars, pfVars, xnVars, tkVars,
            cliVars, tsneVars, splitVars, sumVars, svVars, enVars>>
xnRest == <<coreVars, akVars, mgVars, dbVars, tvVars, facVars, pfVars, fcVars, tkVars,
            cliVars, tsneVars, splitVars, sumVars, svVars, enVars>>
tkRest == <<coreVars, akVars, mgVars, dbVars, tvVars, facVars, pfVars, fcVars, xnVars,
            cliVars, tsneVars, splitVars, sumVars, svVars, enVars>>
cliRest == <<coreVars, akVars, mgVars, dbVars, tvVars, facVars, pfVars, fcVars, xnVars,
             tkVars, tsneVars, splitVars, sumVars, svVars, enVars>>
tsneRest == <<coreVars, akVars, mgVars, dbVars, tvVars, facVars, pfVars, fcVars,
              xnVars, tkVars, cliVars, splitVars, sumVars, svVars, enVars>>
splitRest == <<coreVars, akVars, mgVars, dbVars, tvVars, facVars, pfVars, fcVars,
               xnVars, tkVars, cliVars, tsneVars, sumVars, svVars, enVars>>
sumRest == <<coreVars, akVars, mgVars, dbVars, tvVars, facVars, pfVars, fcVars, xnVars,
             tkVars, cliVars, tsneVars, splitVars, svVars, enVars>>
svRest == <<coreVars, akVars, mgVars, dbVars, tvVars, facVars, pfVars, fcVars, xnVars,
            tkVars, cliVars, tsneVars, splitVars, sumVars, enVars>>
enRest == <<coreVars, akVars, mgVars, dbVars, tvVars, facVars, pfVars, fcVars, xnVars,
            tkVars, cliVars, tsneVars, splitVars, sumVars, svVars>>

-----------------------------------------------------------------------------
(* Bounds of the model.                                                    *)

\* Largest number of tests in the cluster map handed to the validation stage.
MaxTests == 4
\* Largest number of clusters in that map.
MaxClusters == 2
\* Largest cluster id a clusterer hands out; the smallest is -1, DBSCAN's noise.
MaxClusterId == 1
\* Largest number of names one SemanticValidator has cached.
MaxCached == 3
\* Largest number of tests in a run of the pipeline.
MaxPipelineTests == 3
\* Largest number of results handed to one ResultManager.
MaxResults == 2
\* Largest number of tests handed to the redundancy analyzer.
MaxAnalyzed == 3
\* Largest number of rows of the feature matrix handed to the clusterer.
MaxSamples == 4
\* Largest n_clusters the clusterer is built with.
MaxK == 4
\* Number of different row values of the feature matrix.
MaxDistinctRows == 2

\* Automatic selection of k: samples, different rows, min_clusters, scores.
MaxAutoSamples == 4
MaxAutoRows == 3
MaxMinClusters == 3
MaxScore == 2

\* Post-processing of k-means clusters: tests, and the largest cluster id.
MaxMergeTests == 4
MaxMergeId == 2

\* DBSCAN: the largest number of samples, and the largest configured min_samples.
MaxDbSamples == 300
MaxMinSamples == 6

\* TF-IDF: the largest corpus, and a max_features small enough to cut a vocabulary.
MaxDocuments == 2
SmallMaxFeatures == 1

\* Component registries: the registrations that succeed in one run.
MaxRegistrations == 2

\* Feature combination: small dimensions beside the defaults, and the patterns
\* that fill a vector.
SmallSemanticDim == 1
SmallCoverageDim == 2
MaxPattern == 2

\* TSNEReducer.reduce: target dimensionalities -1..MaxNDims, 1..MaxTsneSamples rows.
MaxNDims == 5
MaxTsneSamples == 4

\* _split_by_semantics: lists of up to MaxSplitTests distinct tests.
MaxSplitTests == 3

\* The intent cache: validate_cluster on lists of up to MaxValidated tests.
MaxValidated == 2

-----------------------------------------------------------------------------
(* Generic helpers.                                                        *)

Min(S) == CHOOSE x \in S : \A y \in S : x <= y
Max(S) == CHOOSE x \in S : \A y \in S : x >= y
Range(s) == {s[i] : i \in 1..Len(s)}

RECURSIVE Perms(_)
\* All orders in which the elements of a finite set can be enumerated.
Perms(S) ==
    IF S = {} THEN {<<>>}
    ELSE UNION {{<<x>> \o p : p \in Perms(S \ {x})} : x \in S}

-----------------------------------------------------------------------------
(* Strings: Python's str.lower, the `in` operator and the fragments of     *)
(* the re module the validators use.                                       *)

UpperLetters == "ABCDEFGHIJKLMNOPQRSTUVWXYZ"
LowerLetters == "abcdefghijklmnopqrstuvwxyz"
Digits == "0123456789"

CharsOf(s) == {SubSeq(s, i, i) : i \in 1..Len(s)}

\* \w of the re module, on ASCII.
WordChars == CharsOf(UpperLetters) \cup CharsOf(LowerLetters) \cup CharsOf(Digits) \cup {"_"}

LowerChar(c) ==
    IF c \in CharsOf(UpperLetters)
    THEN LET i == CHOOSE j \in 1..Len(UpperLetters) : SubSeq(UpperLetters, j, j) = c
         IN SubSeq(LowerLetters, i, i)
    ELSE c

RECURSIVE lower(_)
\* str.lower()
lower(s) ==
    IF s = "" THEN ""
    ELSE LowerChar(SubSeq(s, 1, 1)) \o lower(SubSeq(s, 2, Len(s)))

\* s[i : i + len(w)] == w
OccursAt(s, i, w) ==
    /\ i >= 1
    /\ i + Len(w) - 1 <= Len(s)
    /\ SubSeq(s, i, i + Len(w) - 1) = w

\* w in s; re.search of a literal.
Contains(s, w) == \E i \in 1..(Len(s) + 1) : OccursAt(s, i, w)

\* re.search(r'a|b|c', s) for literal alternatives.
ContainsAny(s, alts) == \E w \in alts : Contains(s, w)

\* re.search(r'a.*b', s): a, then b anywhere after it (the names hold no newline).
ContainsThen(s, a, b) ==
    \E i \in 1..Len(s) : \E j \in 1..Len(s) :
        OccursAt(s, i, a) /\ j >= i + Len(a) /\ OccursAt(s, j, b)

IsWordAt(s, i) == i >= 1 /\ i <= Len(s) /\ SubSeq(s, i, i) \in WordChars

\* \b just before position p: exactly one neighbour is a word character.
WordBoundary(s, p) == IsWordAt(s, p - 1) # IsWordAt(s, p)

\* \b(w)\b matches with the group starting at position i.
WordMatchesAt(s, i, w) ==
    /\ OccursAt(s, i, w)
    /\ WordBoundary(s, i)
    /\ WordBoundary(s, i + Len(w))

NoMatch == ""

\* The first alternative, in the order of the pattern, that matches at i.
FirstAltAt(s, i, alts) ==
    alts[Min({j \in 1..Len(alts) : WordMatchesAt(s, i, alts[j])})]

\* group(1) of the leftmost match, given the positions that match.
GroupOfLeftmost(s, alts, pos) ==
    IF pos = {} THEN NoMatch ELSE FirstAltAt(s, Min(pos), alts)

\* re.compile(rf'\b({a|b|...})\b').search(s).group(1), or NoMatch: the leftmost
\* position that matches, and there the first alternative that does.
SearchWord(s, alts) ==
    GroupOfLeftmost(s, alts,
        {i \in 1..Len(s) : \E k \in 1..Len(alts) : WordMatchesAt(s, i, alts[k])})

RECURSIVE Split(_, _)
\* str.split(sep) for a one-character separator: the parts, empty ones included.
Split(s, sep) ==
    LET hits == {i \in 1..Len(s) : SubSeq(s, i, i) = sep}
    IN IF hits = {} THEN <<s>>
       ELSE LET i == Min(hits)
            IN <<SubSeq(s, 1, i - 1)>> \o Split(SubSeq(s, i + 1, Len(s)), sep)

-----------------------------------------------------------------------------
(* The universe of test names.                                             *)

\* Names the pure functions are applied to.
TestNames ==
    { "test_login_success", "test_login_failure", "test_registration_success",
      "login success", "login failure",
      "testMinValue", "testMaxValue",
      "testThrowAssertSuccess", "testAssertSuccess", "testAssertError404" }

\* Names the cluster maps handed to the validation stage are built from.
ClusterNames ==
    { "test_login_success", "test_login_failure",
      "testMinValue", "testMaxValue",
      "testThrowAssertSuccess", "testAssertSuccess" }

-----------------------------------------------------------------------------
(* analysis/validation.py: ValidationConfig and SemanticValidator.         *)

\* ValidationConfig(strict_mode, allow_boundary_merging); min_cluster_size is
\* read by no code.
ValidationConfig(strict, merging) ==
    [strict_mode |-> strict, allow_boundary_merging |-> merging]

\* ValidationConfig(): the dataclass defaults.
DefaultValidationConfig == ValidationConfig(TRUE, FALSE)

ValidationConfigs == {ValidationConfig(s, m) : s \in BOOLEAN, m \in BOOLEAN}

\* SemanticValidator.opposition_pairs: (positive, negative) alternations, each
\* in the order the regular expression lists its alternatives.
opposition_pairs ==
    << << <<"success">>, <<"fail", "failure", "error", "exception">> >>,
       << <<"valid">>, <<"invalid">> >>,
       << <<"empty">>, <<"notempty", "not_empty">> >>,
       << <<"null">>, <<"notnull", "not_null">> >>,
       << <<"true">>, <<"false">> >>,
       << <<"found">>, <<"notfound", "not_found", "missing">> >>,
       << <<"exists">>, <<"not_exists", "doesnt_exist", "missing">> >>,
       << <<"authorized">>, <<"unauthorized", "forbidden">> >>,
       << <<"create", "created">>, <<"delete", "deleted", "destroy">> >>,
       << <<"with">>, <<"without">> >>,
       << <<"before">>, <<"after">> >>,
       << <<"ascending", "asc">>, <<"descending", "desc">> >>,
       << <<"min", "minimum">>, <<"max", "maximum">> >>,
       << <<"first">>, <<"last">> >>,
       << <<"single">>, <<"multiple", "many">> >>,
       << <<"enabled">>, <<"disabled">> >>,
       << <<"active">>, <<"inactive", "expired">> >>,
       << <<"online">>, <<"offline">> >>,
       << <<"cached", "cache_hit">>, <<"uncached", "cache_miss">> >>,
       << <<"sync", "synchronous">>, <<"async", "asynchronous">> >> >>

\* intent[match.group(1)] = value when the pattern matched.
AssignIfMatched(key, value) ==
    IF key # NoMatch THEN << <<key, value>> >> ELSE <<>>

\* The assignments intent[key] = value of one opposition pair, in program order.
PairAssignments(normalized, pair) ==
    AssignIfMatched(SearchWord(normalized, pair[1]), TRUE)
    \o AssignIfMatched(SearchWord(normalized, pair[2]), FALSE)

RECURSIVE OppositionAssignments(_, _, _)
\* The loop over compiled_oppositions from pair k on.
OppositionAssignments(normalized, pairs, k) ==
    IF k > Len(pairs) THEN <<>>
    ELSE PairAssignments(normalized, pairs[k])
         \o OppositionAssignments(normalized, pairs, k + 1)

\* r'assert(error|fail|4\d\d|5\d\d)'
MatchesHttpError(normalized) ==
    \/ ContainsAny(normalized, {"asserterror", "assertfail"})
    \/ \E i \in 1..Len(normalized) :
          /\ i + 8 <= Len(normalized)
          /\ SubSeq(normalized, i, i + 6) \in {"assert4", "assert5"}
          /\ CharsOf(SubSeq(normalized, i + 7, i + 8)) \subseteq CharsOf(Digits)

\* intent[key] = True when the assertion pattern was found.
AssignIf(found, key) ==
    IF found THEN << <<key, TRUE>> >> ELSE <<>>

\* The assertion_patterns loop: the keys it sets to True, in program order.
AssertionAssignments(normalized) ==
    AssignIf(ContainsAny(normalized, {"throw", "exception", "expectexception"}),
             "throws_exception")
    \o AssignIf(ContainsThen(normalized, "return", "null")
                   \/ ContainsThen(normalized, "null", "return"), "returns_null")
    \o AssignIf(ContainsThen(normalized, "return", "empty")
                   \/ ContainsThen(normalized, "empty", "return"), "returns_empty")
    \o AssignIf(ContainsAny(normalized, {"assertok", "assertsuccess", "assert200"}),
                "http_success")
    \o AssignIf(MatchesHttpError(normalized), "http_error")

\* The dict a sequence of assignments d[key] = value leaves: the last one wins.
DictOf(assignments) ==
    [key \in {assignments[i][1] : i \in 1..Len(assignments)} |->
        assignments[Max({i \in 1..Len(assignments) : assignments[i][1] = key})][2]]

\* The intent dict of a name already lower-cased.
IntentOfNormalized(normalized) ==
    DictOf(OppositionAssignments(normalized, opposition_pairs, 1)
           \o AssertionAssignments(normalized))

\* The body of SemanticValidator.extract_test_intent after the cache check:
\* the intent dict computed from the name.
IntentOf(test_name) == IntentOfNormalized(lower(test_name))

\* The intents of the names of the model, computed once.
IntentTable == [n \in TestNames |-> IntentOf(n)]

\* SemanticValidator._intent_cache of a new instance.
EmptyCache == [n \in {} |-> <<>>]

\* SemanticValidator.extract_test_intent on a name of the model: the cached
\* dict when the name is cached, the computed one otherwise.
extract_test_intent(cache, test_name) ==
    IF test_name \in DOMAIN cache THEN cache[test_name] ELSE IntentTable[test_name]

\* _intent_cache after extract_test_intent was called on each of names: a name
\* already cached keeps its entry.
CacheAfter(cache, names) ==
    [n \in (DOMAIN cache) \cup names |-> extract_test_intent(cache, n)]

\* dict.get(key) of a flag that is only ever set to True.
Get(intent, key) == key \in DOMAIN intent /\ intent[key]

boundary_terms == {"min", "max", "edge", "boundary", "limit"}

\* any(term in test.lower() for term in boundary_terms)
HasBoundaryTerm(test) == ContainsAny(lower(test), boundary_terms)

\* The keys the two intents share with different values.
DifferingKeys(intent1, intent2) ==
    {key \in (DOMAIN intent1) \cap (DOMAIN intent2) : intent1[key] # intent2[key]}

\* The checks of tests_have_opposing_intents on the two extracted intents.
\* The loop over the common keys runs in set order; the key named in the reason
\* is one of those that differ.
OpposingIntents(config, t1, t2, intent1, intent2, differing) ==
    IF differing # {}
    THEN <<TRUE, "Opposing intents on '" \o (CHOOSE key \in differing : TRUE) \o "'">>
    ELSE IF Get(intent1, "throws_exception") /\ Get(intent2, "http_success")
    THEN <<TRUE, "Exception test vs success test">>
    ELSE IF Get(intent1, "http_error") /\ Get(intent2, "http_success")
    THEN <<TRUE, "Error assertion vs success assertion">>
    ELSE IF /\ config.strict_mode /\ ~config.allow_boundary_merging
            /\ HasBoundaryTerm(t1) /\ HasBoundaryTerm(t2) /\ t1 # t2
    THEN <<TRUE, "Different boundary value tests">>
    ELSE <<FALSE, "">>

\* The same, on the two intents.
CompareIntents(config, t1, t2, intent1, intent2) ==
    OpposingIntents(config, t1, t2, intent1, intent2, DifferingKeys(intent1, intent2))

\* SemanticValidator.tests_have_opposing_intents: <<has_opposition, reason>>.
tests_have_opposing_intents(cache, config, t1, t2) ==
    CompareIntents(config, t1, t2,
                   extract_test_intent(cache, t1), extract_test_intent(cache, t2))

\* has_opposition of every pair of the model's names for a validator whose
\* cache is empty, computed once.
ConflictTable ==
    [config \in ValidationConfigs |-> [a \in TestNames |-> [b \in TestNames |->
        tests_have_opposing_intents(EmptyCache, config, a, b)[1]]]]

\* has_conflict of the call tests_have_opposing_intents(a, b) made by a
\* validator whose cache is empty.
HasConflict(config, a, b) == ConflictTable[config][a][b]

\* The conflicts list of validate_cluster: the index pairs i < j that conflict.
Conflicts(config, test_names) ==
    {<<i, j>> \in (1..Len(test_names)) \X (1..Len(test_names)) :
        i < j /\ HasConflict(config, test_names[i], test_names[j])}

\* The category validate_cluster files a test under, from the keys of its intent.
CategoryFrom(keys, test_lower) ==
    IF \E k \in keys : Contains(k, "success") \/ Contains(k, "valid")
    THEN "positive"
    ELSE IF \E k \in keys : Contains(k, "fail") \/ Contains(k, "error") \/ Contains(k, "invalid")
    THEN "negative"
    ELSE IF Contains(test_lower, "boundary") \/ Contains(test_lower, "edge")
    THEN "boundary"
    ELSE "neutral"

\* The categories of the model's names, computed once.
CategoryTable ==
    [n \in TestNames |-> CategoryFrom(DOMAIN extract_test_intent(EmptyCache, n), lower(n))]

Category(test) == CategoryTable[test]

\* categories[cat]: the tests of category cat, in cluster order.
RECURSIVE SelectCategory(_, _)
SelectCategory(s, cat) ==
    IF s = <<>> THEN <<>>
    ELSE (IF Category(Head(s)) = cat THEN <<Head(s)>> ELSE <<>>)
         \o SelectCategory(Tail(s), cat)

\* The keys of categories in insertion order: each category at its first test.
RECURSIVE CategoryOrder(_, _)
CategoryOrder(cats, seen) ==
    IF cats = <<>> THEN <<>>
    ELSE (IF Head(cats) \in seen THEN <<>> ELSE <<Head(cats)>>)
         \o CategoryOrder(Tail(cats), seen \cup {Head(cats)})

\* The dict validate_cluster returns, given its conflicts and category keys;
\* categories is the defaultdict as the sequence of its (category, tests) items.
ValidationResult(conflicts, order, test_names) ==
    [is_safe |-> conflicts = {},
     conflicts |-> conflicts,
     categories |-> [k \in 1..Len(order) |-> <<order[k], SelectCategory(test_names, order[k])>>],
     has_mixed_categories |-> Len(order) > 1,
     cluster_size |-> Len(test_names)]

\* SemanticValidator.validate_cluster of a validator whose cache is empty.
validate_cluster(config, test_names) ==
    ValidationResult(Conflicts(config, test_names),
                     CategoryOrder([i \in 1..Len(test_names) |-> Category(test_names[i])], {}),
                     test_names)

\* FirstSemanticId that starts at the largest id in use.
FirstSemanticIdInUse(cluster_data) ==
    IF cluster_data # <<>>
    THEN Max({cluster_data[i].cluster_id : i \in 1..Len(cluster_data)})
    ELSE 1

\* The id split_unsafe_clusters gives its first new cluster.
FirstSemanticId(cluster_data) ==
    IF cluster_data # <<>>
    THEN Max({cluster_data[i].cluster_id : i \in 1..Len(cluster_data)}) + 1
    ELSE 1

\* The new clusters that replace an unsafe one, numbered from next_cluster_id.
SplitByCategory(cluster, categories, next_cluster_id) ==
    [k \in 1..Len(categories) |->
        [cluster_id |-> next_cluster_id + k - 1,
         tests |-> categories[k][2],
         was_split |-> TRUE,
         original_cluster |-> cluster.cluster_id]]

\* What one cluster contributes to new_clusters: itself when safe, else its split.
ClusterOrSplit(cluster, validation, next_cluster_id) ==
    IF validation.is_safe THEN <<cluster>>
    ELSE SplitByCategory(cluster, validation.categories, next_cluster_id)

\* <<new_clusters, split_count>> after one more cluster was handled.
Prepend(first, was_split, rest) ==
    <<first \o rest[1], rest[2] + (IF was_split THEN 1 ELSE 0)>>

RECURSIVE SplitLoop(_, _, _, _)
RECURSIVE SplitStep(_, _, _, _, _)

\* The loop of split_unsafe_clusters from cluster k on:
\* <<new_clusters, split_count>> given the next free id.
SplitLoop(config, cluster_data, k, next_cluster_id) ==
    IF k > Len(cluster_data) THEN <<<<>>, 0>>
    ELSE SplitStep(config, cluster_data, k, next_cluster_id,
                   ClusterOrSplit(cluster_data[k],
                                  validate_cluster(config, cluster_data[k].tests),
                                  next_cluster_id))

\* One iteration: first is what cluster k contributed.
SplitStep(config, cluster_data, k, next_cluster_id, first) ==
    Prepend(first, first # <<cluster_data[k]>>,
            SplitLoop(config, cluster_data, k + 1,
                      IF first # <<cluster_data[k]>>
                      THEN next_cluster_id + Len(first) ELSE next_cluster_id))

\* SemanticValidator.split_unsafe_clusters of a validator whose cache is
\* empty: <<new_cluster_data, split_count>>.  Every cluster id of the model
\* is an int.
split_unsafe_clusters(config, cluster_data) ==
    SplitLoop(config, cluster_data, 1, FirstSemanticId(cluster_data))

-----------------------------------------------------------------------------
(* cluster_validator.py: the legacy ClusterValidator.                      *)

\* ClusterValidator.opposition_pairs: (positive substring, negative pattern).
legacy_opposition_pairs ==
    << <<"success", {"fail", "failure", "error", "exception"}>>,
       <<"valid", {"invalid"}>>,
       <<"empty", {"notempty", "not_empty"}>>,
       <<"null", {"notnull", "not_null"}>>,
       <<"authorized", {"unauthorized", "forbidden"}>>,
       <<"authenticated", {"unauthenticated", "guest"}>>,
       <<"create", {"delete", "destroy", "remove"}>>,
       <<"add", {"remove", "delete"}>>,
       <<"enable", {"disable"}>>,
       <<"start", {"stop", "end"}>>,
       <<"show", {"hide"}>>,
       <<"open", {"close"}>>,
       <<"accept", {"reject", "deny"}>>,
       <<"allow", {"block", "prevent"}>>,
       <<"connect", {"disconnect"}>>,
       <<"login", {"logout"}>>,
       <<"subscribe", {"unsubscribe"}>>,
       <<"lock", {"unlock"}>>,
       <<"activate", {"deactivate"}>>,
       <<"online", {"offline"}>>,
       <<"available", {"unavailable"}>>,
       <<"public", {"private"}>>,
       <<"visible", {"hidden", "invisible"}>> >>

\* ClusterValidator._similarity_ratio(s1, s2) > 0.8, on the exact quotient
\* |set1 & set2| / |set1 | set2| (str.split never returns an empty list).
SimilarNames(s1, s2) ==
    LET set1 == Range(Split(s1, "_"))
        set2 == Range(Split(s2, "_"))
    IN 10 * Cardinality(set1 \cap set2) > 8 * Cardinality(set1 \cup set2)

\* ClusterValidator._are_semantically_opposing, its boolean.
are_semantically_opposing(test_a, test_b) ==
    LET test_a_lower == lower(test_a)
        test_b_lower == lower(test_b)
    IN /\ ~SimilarNames(test_a_lower, test_b_lower)
       /\ \E k \in 1..Len(legacy_opposition_pairs) :
             LET positive == legacy_opposition_pairs[k][1]
                 negative_pattern == legacy_opposition_pairs[k][2]
             IN \/ Contains(test_a_lower, positive) /\ ContainsAny(test_b_lower, negative_pattern)
                \/ Contains(test_b_lower, positive) /\ ContainsAny(test_a_lower, negative_pattern)

\* The pairs of the model's names that oppose, computed once.
OpposingTable ==
    [a \in ClusterNames |-> [b \in ClusterNames |-> are_semantically_opposing(a, b)]]

Opposing(a, b) == OpposingTable[a][b]

\* The test of _contains_boundary_tests on one name.
MatchesBoundaryPattern(test) ==
    ContainsAny(lower(test), {"min", "minimum", "max", "maximum", "zero", "empty",
                              "boundary", "edge", "limit", "overflow", "underflow"})

BoundaryTestTable == [n \in ClusterNames |-> MatchesBoundaryPattern(n)]

IsBoundaryTest(test) == BoundaryTestTable[test]

\* ClusterValidator._contains_boundary_tests: more than 30% of the entries.
contains_boundary_tests(tests) ==
    10 * Cardinality({i \in 1..Len(tests) : IsBoundaryTest(tests[i])}) > 3 * Len(tests)

\* is_exception_test of _contains_mixed_exception_tests.
MatchesExceptionPattern(test) ==
    ContainsAny(lower(test), {"exception", "error", "fail", "throw", "throws", "raising",
                              "invalid", "malformed", "corrupt"})

ExceptionTestTable == [n \in ClusterNames |-> MatchesExceptionPattern(n)]

IsExceptionTest(test) == ExceptionTestTable[test]

\* ClusterValidator._contains_mixed_exception_tests
contains_mixed_exception_tests(tests) ==
    /\ \E i \in 1..Len(tests) : IsExceptionTest(tests[i])
    /\ \E i \in 1..Len(tests) : ~IsExceptionTest(tests[i])

\* ClusterValidator.validate_cluster_safety, its boolean.
validate_cluster_safety(cluster_tests) ==
    IF Len(cluster_tests) <= 2 THEN TRUE
    ELSE IF contains_mixed_exception_tests(cluster_tests) THEN FALSE
    ELSE IF contains_boundary_tests(cluster_tests) THEN FALSE
    ELSE ~\E i \in 1..Len(cluster_tests) : \E j \in 1..Len(cluster_tests) :
             i < j /\ Opposing(cluster_tests[i], cluster_tests[j])

\* The tests the scan of _split_by_semantics adds to a group that holds only its
\* seed: tests_to_add is appended to current_group after the scan.
TestsToAdd(remaining, seed) ==
    {test \in remaining \ {seed} : ~Opposing(test, seed)}

RECURSIVE SplitGroups(_)
RECURSIVE GroupsFrom(_, _, _)
\* The group lists the while loop of _split_by_semantics can return from a set
\* of remaining tests: set.pop() yields any element, and the scan of the set
\* visits the others in any order.
SplitGroups(remaining) ==
    IF remaining = {} THEN {<<>>}
    ELSE UNION { GroupsFrom(remaining, seed, TestsToAdd(remaining, seed))
               : seed \in remaining }

\* The group lists whose first group starts with seed and then holds adds.
GroupsFrom(remaining, seed, adds) ==
    { <<<<seed>> \o p>> \o rest :
        p \in Perms(adds), rest \in SplitGroups(remaining \ ({seed} \cup adds)) }

\* ClusterValidator._split_by_semantics: every list of groups it can return.
split_by_semantics(tests) == SplitGroups(Range(tests))

-----------------------------------------------------------------------------
(* pipeline/stages.py: ValidationStage.                                    *)

\* A Python dict as the sequence of its (key, value) items in insertion order.
Keys(d) == {d[i][1] : i \in 1..Len(d)}

\* d[key] = value: a present key keeps its place, a new key goes to the end.
DictSet(d, key, value) ==
    IF key \in Keys(d)
    THEN [i \in 1..Len(d) |-> IF d[i][1] = key THEN <<key, value>> ELSE d[i]]
    ELSE Append(d, <<key, value>>)

\* FirstLegacyId that starts at the largest id of the input map.
FirstLegacyIdInUse(cluster_map) ==
    IF cluster_map # <<>> THEN Max(Keys(cluster_map)) ELSE 0

\* The id ValidationStage.process gives the first sub-cluster of its first split.
FirstLegacyId(cluster_map) ==
    (IF cluster_map # <<>> THEN Max(Keys(cluster_map)) ELSE 0) + 1

RECURSIVE KeepSubclusters(_, _, _, _)
\* The inner loop over enumerate(subclusters) from index i (counted from 1):
\* a sub-cluster of 2 or more tests is stored under next_cluster_id + i.
KeepSubclusters(safe_clusters, subclusters, i, next_cluster_id) ==
    IF i > Len(subclusters) THEN safe_clusters
    ELSE KeepSubclusters(
            IF Len(subclusters[i]) >= 2
            THEN DictSet(safe_clusters, next_cluster_id + (i - 1), subclusters[i])
            ELSE safe_clusters,
            subclusters, i + 1, next_cluster_id)

RECURSIVE LegacyLoop(_, _, _, _, _)
\* The first loop of ValidationStage.process from cluster k on: every
\* <<safe_clusters, split_count>> it can end with.
LegacyLoop(cluster_map, k, safe_clusters, split_count, next_cluster_id) ==
    IF k > Len(cluster_map) THEN {<<safe_clusters, split_count>>}
    ELSE LET cluster_id == cluster_map[k][1]
             test_names == cluster_map[k][2]
         IN IF ~validate_cluster_safety(test_names)
            THEN UNION { LegacyLoop(cluster_map, k + 1,
                            KeepSubclusters(safe_clusters, subclusters, 1, next_cluster_id),
                            split_count + Cardinality({i \in 1..Len(subclusters) :
                                                         Len(subclusters[i]) >= 2}),
                            next_cluster_id + Len(subclusters))
                         : subclusters \in split_by_semantics(test_names) }
            ELSE LegacyLoop(cluster_map, k + 1,
                            DictSet(safe_clusters, cluster_id, test_names),
                            split_count, next_cluster_id)

RECURSIVE DictOfClusters(_, _)
\* validated_clusters[cluster['cluster_id']] = cluster['tests'], cluster by cluster.
DictOfClusters(new_cluster_data, k) ==
    IF k = 0 THEN <<>>
    ELSE DictSet(DictOfClusters(new_cluster_data, k - 1),
                 new_cluster_data[k].cluster_id, new_cluster_data[k].tests)

\* cluster_data of ValidationStage.process: the items of safe_clusters as dicts.
ClusterData(safe_clusters) ==
    [i \in 1..Len(safe_clusters) |->
        [cluster_id |-> safe_clusters[i][1], tests |-> safe_clusters[i][2]]]

\* What ValidationStage.process leaves and returns.
Outcome(safe_clusters, split_count, semantic) ==
    [safe_clusters |-> safe_clusters,
     split_count |-> split_count,
     new_cluster_data |-> semantic[1],
     semantic_split_count |-> semantic[2],
     validated_clusters |-> DictOfClusters(semantic[1], Len(semantic[1])),
     returned_count |-> split_count + semantic[2]]

\* The second half of ValidationStage.process, after the legacy loop ended
\* with `legacy`.
SemanticPass(config, legacy) ==
    Outcome(legacy[1], legacy[2], split_unsafe_clusters(config, ClusterData(legacy[1])))

\* ValidationStage.process(clusters) of a stage built with config: every
\* outcome it can return.
process(config, cluster_map) ==
    { SemanticPass(config, legacy) :
        legacy \in LegacyLoop(cluster_map, 1, <<>>, 0, FirstLegacyId(cluster_map)) }

-----------------------------------------------------------------------------
(* clustering/base.py and pipeline/stages.py: from cluster labels to the   *)
(* cluster map of test names.                                              *)

RECURSIVE prepare_clusters_from(_, _, _)
\* The loop of Clusterer.prepare_clusters from position k on; indices count
\* from 0 as enumerate does.
prepare_clusters_from(labels, k, cluster_dict) ==
    IF k > Len(labels) THEN cluster_dict
    ELSE LET label == labels[k]
             idx == k - 1
             old == IF label \in Keys(cluster_dict)
                    THEN (CHOOSE item \in Range(cluster_dict) : item[1] = label)[2]
                    ELSE <<>>
         IN prepare_clusters_from(labels, k + 1, DictSet(cluster_dict, label, Append(old, idx)))

\* Clusterer.prepare_clusters(labels): the dict label -> indices.
prepare_clusters(labels) == prepare_clusters_from(labels, 1, <<>>)

\* ClusteringStage.process, simple format: clusters[cid] = [test_names[idx] ...].
NamedClusters(cluster_result, test_names) ==
    [c \in 1..Len(cluster_result) |->
        <<cluster_result[c][1],
          [p \in 1..Len(cluster_result[c][2]) |-> test_names[cluster_result[c][2][p] + 1]]>>]

-----------------------------------------------------------------------------
(* The cluster maps a clusterer can hand to the validation stage.          *)

ClusterIds == (-1)..MaxClusterId

\* sorted(ClusterNames): the order prepare_matrix gives the tests by default.
SortedClusterNames ==
    << "testAssertSuccess", "testMaxValue", "testMinValue", "testThrowAssertSuccess",
       "test_login_failure", "test_login_success" >>

Reverse(s) == [i \in 1..Len(s) |-> s[Len(s) + 1 - i]]

RECURSIVE SubSeqsOf(_, _)
\* The subsequences of s of at most n elements.
SubSeqsOf(s, n) ==
    IF s = <<>> \/ n = 0 THEN {<<>>}
    ELSE SubSeqsOf(Tail(s), n)
         \cup {<<Head(s)>> \o r : r \in SubSeqsOf(Tail(s), n - 1)}

\* The test suites: at most MaxTests names, listed in sorted order or in the
\* reverse of it (the order of the keys of the sources file is free).
TestSuites ==
    SubSeqsOf(SortedClusterNames, MaxTests) \cup SubSeqsOf(Reverse(SortedClusterNames), MaxTests)

\* The label arrays over n tests that use at most MaxClusters labels.
LabelArrays(n) ==
    {labels \in [1..n -> ClusterIds] : Cardinality(Range(labels)) <= MaxClusters}

\* The cluster maps a clustering of one of the suites gives.
ClusterMapsOf(suites) ==
    UNION { {NamedClusters(prepare_clusters(labels), test_names) :
                labels \in LabelArrays(Len(test_names))} : test_names \in suites }

-----------------------------------------------------------------------------
(* pipeline/factory.py, factories.py and pipeline/orchestrator.py.         *)

\* The keys of PipelineFactory._pipelines when the module is loaded.
RegisteredAtImport ==
    {"kmeans", "k-means", "dbscan", "hierarchical", "agglomerative", "hac"}

\* The keys of factories.CLUSTERERS, the names get_clusterer accepts.
CLUSTERERS == {"kmeans", "dbscan", "hierarchical"}

\* PipelineFactory.register(name, pipeline_class) on the keys of _pipelines,
\* for a class that derives from BasePipeline; any other class raises and
\* leaves the registry as it was.
register(registry, name, is_pipeline_class) ==
    IF is_pipeline_class THEN registry \cup {lower(name)} ELSE registry

\* The keys of PipelineFactory.list_algorithms().
list_algorithms(registry) == registry

\* UseNewPipeline that looks the name up as it was given.
UseNewPipelineAsGiven(flag, name, registry) ==
    IF flag = "None" THEN name \in list_algorithms(registry) ELSE flag = "True"

\* use_new_pipeline as run has it after its auto-detection; the argument is
\* "None", "True" or "False".
UseNewPipeline(flag, name, registry) ==
    IF flag = "None" THEN lower(name) \in list_algorithms(registry) ELSE flag = "True"

\* The branch of run that executes.
StrategyOf(use_new) == IF use_new THEN "modular" ELSE "legacy"

\* The ValidationConfig BasePipeline.__init__ builds its validation stage with.
ModularValidationConfig == ValidationConfig(FALSE, TRUE)

\* The ValidationConfig the legacy branch of run builds its stage with.
LegacyValidationConfig(max_conflicts) == ValidationConfig(max_conflicts = 0, FALSE)

\* What a call of run leaves: whether it raised, whether it called
\* ValidationStage.process, and results['clusters'].
RunOutcome(raised, validated, cluster_map) ==
    [raised |-> raised, validated |-> validated, clusters |-> cluster_map]

\* run after a stage validated: every outcome.
ValidatedOutcomes(outcomes) ==
    {RunOutcome(FALSE, TRUE, o.validated_clusters) : o \in outcomes}

\* The modular branch: create_pipeline raises on a name that is not registered;
\* BasePipeline.run validates the clusters that come out of clustering and
\* post-processing, whatever validate_clusters is.
ModularRun(registry, name, cluster_map) ==
    IF lower(name) \notin registry THEN {RunOutcome(TRUE, FALSE, <<>>)}
    ELSE ValidatedOutcomes(process(ModularValidationConfig, cluster_map))

\* The legacy branch: get_clusterer raises on a name it does not know; the
\* clusters are validated when validate_clusters is true.
LegacyRun(max_conflicts, name, validate, cluster_map) ==
    IF name \notin CLUSTERERS THEN {RunOutcome(TRUE, FALSE, <<>>)}
    ELSE IF validate
    THEN ValidatedOutcomes(process(LegacyValidationConfig(max_conflicts), cluster_map))
    ELSE {RunOutcome(FALSE, FALSE, cluster_map)}

\* RedundancyPipeline.run from the branch on: every outcome.
RunOutcomes(strat, registry, max_conflicts, name, validate, cluster_map) ==
    IF strat = "modular" THEN ModularRun(registry, name, cluster_map)
    ELSE LegacyRun(max_conflicts, name, validate, cluster_map)

\* The names run and register are called with.
AlgorithmNames == {"kmeans", "KMeans", "spectral", "Spectral"}

RegisterNames == {"Spectral", "kmeans"}

UseNewPipelineValues == {"None", "True", "False"}

\* ValidationThresholds.max_conflicts_per_cluster of the presets of ThresholdConfig.
MaxConflictsPresets == {0, 2}

\* The test suites of a run: at most MaxPipelineTests names and at least one,
\* in the order prepare_matrix lists them.
PipelineSuites == SubSeqsOf(SortedClusterNames, MaxPipelineTests) \ {<<>>}

\* The cluster maps clustering and post-processing can produce.
PipelineClusterMaps == ClusterMapsOf(PipelineSuites)

-----------------------------------------------------------------------------
(* pipeline/results.py: ResultManager, and the files of the output         *)
(* directory.                                                              *)

ClustersFile == "clusters.json"
CsvFile == "redundancy_report.csv"
ResultsFile == "results.json"

FileNames == {ClustersFile, CsvFile, ResultsFile}

\* The content of a file: the result it was written from, and whether it is
\* complete, cut short by a failed write, or empty.
Content(id, state) == [result |-> id, state |-> state]

NoFile == Content(0, "absent")

\* A pipeline result as ResultManager reads it: whether it has the key
\* 'clusters', and whether 'redundancy_analysis' is absent, has an empty
\* 'redundant_tests' list, or has records.  id tells the results apart.
Result(id, has_clusters, redundancy) ==
    [id |-> id, has_clusters |-> has_clusters, redundancy |-> redundancy]

\* ResultManager.results of a new manager: {}.
EmptyResults == Result(0, FALSE, "absent")

ResultValues(id) ==
    {Result(id, c, r) : c \in BOOLEAN, r \in {"absent", "empty", "records"}}

\* The files save writes, in the order it writes them.
SaveSteps(result, csv) ==
    (IF result.has_clusters THEN <<ClustersFile>> ELSE <<>>)
    \o (IF csv /\ result.redundancy # "absent" THEN <<CsvFile>> ELSE <<>>)
    \o <<ResultsFile>>

\* Whether the step for file `name` only touches it: write_redundancy_csv on
\* an empty list calls Path.touch().
OnlyTouches(name, result) == name = CsvFile /\ result.redundancy = "empty"

\* The directory after the step for `name`: open(path, 'w') and a dump, or the
\* touch.  A step that fails leaves the file as it was or cut short.
WriteStep(fs, name, result, fails, truncated) ==
    IF OnlyTouches(name, result)
    THEN IF fails \/ fs[name] # NoFile THEN fs
         ELSE [fs EXCEPT ![name] = Content(result.id, "empty")]
    ELSE IF ~fails THEN [fs EXCEPT ![name] = Content(result.id, "complete")]
    ELSE IF truncated THEN [fs EXCEPT ![name] = Content(result.id, "partial")]
    ELSE fs

\* Whether that step created or changed the file.
Wrote(fs, name, result, fails, truncated) ==
    IF OnlyTouches(name, result) THEN ~fails /\ fs[name] = NoFile
    ELSE ~fails \/ truncated

\* The set `written` after the step.
WrittenAfter(written, fs, name, result, fails, truncated) ==
    IF Wrote(fs, name, result, fails, truncated) THEN written \cup {name} ELSE written

RECURSIVE SaveFrom(_, _, _, _, _, _, _)
\* ResultManager.save from step k on: <<files, written, raised>>.
SaveFrom(fs, written, result, steps, k, fail_at, truncated) ==
    IF k > Len(steps) THEN <<fs, written, FALSE>>
    ELSE IF steps[k] = fail_at
    THEN <<WriteStep(fs, steps[k], result, TRUE, truncated),
           WrittenAfter(written, fs, steps[k], result, TRUE, truncated), TRUE>>
    ELSE SaveFrom(WriteStep(fs, steps[k], result, FALSE, FALSE),
                  WrittenAfter(written, fs, steps[k], result, FALSE, FALSE),
                  result, steps, k + 1, fail_at, truncated)

\* ResultManager.save(output_dir, save_csv=csv): <<files, written, raised>>.
\* fail_at names the step that raises, "ensure_directory" included, or "none".
save(fs, result, csv, fail_at, truncated) ==
    IF fail_at = "ensure_directory" THEN <<fs, {}, TRUE>>
    ELSE SaveFrom(fs, {}, result, SaveSteps(result, csv), 1, fail_at, truncated)

\* The steps of a save that can raise.
FailPoints(result, csv) ==
    {"none", "ensure_directory"} \cup Range(SaveSteps(result, csv))

-----------------------------------------------------------------------------
(* analysis/redundancy.py and core/normalization.py: RedundancyAnalyzer.   *)

RedundancyThresholds(low, moderate, high, very_high) ==
    [low |-> low, moderate |-> moderate, high |-> high, very_high |-> very_high]

\* RedundancyThresholds(): the dataclass defaults 0.15, 0.25, 0.40, 0.60.
DefaultThresholds == RedundancyThresholds(15000, 25000, 40000, 60000)

\* The thresholds RedundancyPipeline builds its analyzer with, from the
\* default, strict and lenient presets of ThresholdConfig.
PresetThresholds ==
    { RedundancyThresholds(30000, 50000, 70000, 85000),
      RedundancyThresholds(30000, 60000, 80000, 90000),
      RedundancyThresholds(25000, 40000, 60000, 85000) }

\* The values of RedundancyLevel above NONE, from the lowest.
RedundancyLevels ==
    <<"low_redundancy", "moderate_redundancy", "high_redundancy", "very_high_redundancy">>

\* classify_redundancy with strict comparisons.
classify_redundancy_above(th, score) ==
    IF score > th.very_high THEN "very_high_redundancy"
    ELSE IF score > th.high THEN "high_redundancy"
    ELSE IF score > th.moderate THEN "moderate_redundancy"
    ELSE IF score > th.low THEN "low_redundancy"
    ELSE "none"

\* The test of find_redundant_tests with a strict comparison.
IsSimilarAbove(th, sim) == sim > th.moderate

\* RedundancyAnalyzer.classify_redundancy: the value of the level.
classify_redundancy(th, score) ==
    IF score >= th.very_high THEN "very_high_redundancy"
    ELSE IF score >= th.high THEN "high_redundancy"
    ELSE IF score >= th.moderate THEN "moderate_redundancy"
    ELSE IF score >= th.low THEN "low_redundancy"
    ELSE "none"

\* The weights of RedundancyAnalyzer.__init__, 0.7 and 0.3, in tenths.
semantic_weight == 7
coverage_weight == 3

\* np.zeros(n), the vector of a test that has none.
ZeroVector == <<0, 0>>

\* dict.get(test, np.zeros(n))
VectorOf(vector_map, test) ==
    IF test \in DOMAIN vector_map THEN vector_map[test] ELSE ZeroVector

Dot(v1, v2) == v1[1] * v2[1] + v1[2] * v2[2]

\* np.linalg.norm, exact on the vectors of the model, whose norms are integers.
Norm(v) == CHOOSE n \in 0..(Dot(v, v)) : n * n = Dot(v, v)

\* The quotient of cosine_similarity in hundred-thousandths; it is exact on the
\* vectors of the model.
Cosine(dot, norm1, norm2) ==
    IF norm1 = 0 \/ norm2 = 0 THEN 0 ELSE (dot * 100000) \div (norm1 * norm2)

\* normalization.cosine_similarity
cosine_similarity(vector1, vector2) ==
    Cosine(Dot(vector1, vector2), Norm(vector1), Norm(vector2))

\* normalization.combined_similarity, its 'combined_similarity'.
combined_similarity(sem1, sem2, cov1, cov2) ==
    (semantic_weight * cosine_similarity(sem1, sem2)
     + coverage_weight * cosine_similarity(cov1, cov2)) \div 10

\* The combined similarity of two tests as both loops of the analyzer compute it.
Similarity(t1, t2, sem, cov) ==
    combined_similarity(VectorOf(sem, t1), VectorOf(sem, t2),
                        VectorOf(cov, t1), VectorOf(cov, t2))

\* The test of find_redundant_tests on a similarity.
IsSimilar(th, sim) == sim >= th.moderate

RECURSIVE PairsFrom(_, _, _)
\* The index pairs of the double loop of analyze_cluster, in loop order.
PairsFrom(i, j, n) ==
    IF i >= n THEN <<>>
    ELSE IF j > n THEN PairsFrom(i + 1, i + 2, n)
    ELSE << <<i, j>> >> \o PairsFrom(i, j + 1, n)

RECURSIVE Sum(_)
Sum(s) == IF s = <<>> THEN 0 ELSE Head(s) + Sum(Tail(s))

\* One entry of redundant_pairs, or nothing when the level is none or low.
RedundantPair(test_a, test_b, sim, pair_level) ==
    IF pair_level \in {"none", "low_redundancy"} THEN <<>>
    ELSE << [test1 |-> test_a, test2 |-> test_b, similarity |-> sim, level |-> pair_level] >>

RECURSIVE RedundantPairs(_, _, _, _)
\* redundant_pairs, from pair k on.
RedundantPairs(th, test_names, sims, k) ==
    IF k > Len(sims) THEN <<>>
    ELSE RedundantPair(test_names[PairsFrom(1, 2, Len(test_names))[k][1]],
                       test_names[PairsFrom(1, 2, Len(test_names))[k][2]],
                       sims[k], classify_redundancy(th, sims[k]))
         \o RedundantPairs(th, test_names, sims, k + 1)

\* The dict analyze_cluster returns for two tests or more, from the list of
\* similarities; the mean is rounded down, which leaves its level unchanged.
ClusterAnalysis(th, test_names, sims) ==
    [size |-> Len(test_names),
     redundancy_level |-> classify_redundancy(th, Sum(sims) \div Len(sims)),
     avg_similarity |-> Sum(sims) \div Len(sims),
     redundant_pairs |-> RedundantPairs(th, test_names, sims, 1)]

\* similarities of analyze_cluster, in loop order.
PairSimilarities(test_names, pairs, sem, cov) ==
    [k \in 1..Len(pairs) |->
        Similarity(test_names[pairs[k][1]], test_names[pairs[k][2]], sem, cov)]

\* RedundancyAnalyzer.analyze_cluster
analyze_cluster(th, test_names, sem, cov) ==
    IF Len(test_names) < 2
    THEN [size |-> Len(test_names), redundancy_level |-> "none",
          avg_similarity |-> 0, redundant_pairs |-> <<>>]
    ELSE ClusterAnalysis(th, test_names,
            PairSimilarities(test_names, PairsFrom(1, 2, Len(test_names)), sem, cov))

\* similar_tests.append(other_test) and the update of max_similarity, put in
\* front of what the rest of the loop finds.
AddSimilar(other_test, sim, rest) ==
    << <<other_test>> \o rest[1], Max({sim, rest[2]}) >>

RECURSIVE SimilarFrom(_, _, _, _, _)
\* The inner loop of find_redundant_tests from other_test q on:
\* <<similar_tests, max_similarity>>; max_similarity starts at 0.0.
SimilarFrom(th, test_names, p, sims, q) ==
    IF q > Len(test_names) THEN <<<<>>, 0>>
    ELSE IF test_names[q] # test_names[p] /\ IsSimilar(th, sims[q])
    THEN AddSimilar(test_names[q], sims[q], SimilarFrom(th, test_names, p, sims, q + 1))
    ELSE SimilarFrom(th, test_names, p, sims, q + 1)

\* The record of one test, from what the inner loop found.
Record(th, cluster_id, test_names, p, found, cluster_level) ==
    [test_name |-> test_names[p],
     cluster_id |-> cluster_id,
     cluster_size |-> Len(test_names),
     similar_tests |-> found[1],
     max_similarity |-> found[2],
     redundancy_status |-> classify_redundancy(th, found[2]),
     cluster_redundancy |-> cluster_level]

\* The records of one cluster of two tests or more.
ClusterRecords(th, cluster_id, test_names, sem, cov, cluster_level) ==
    [p \in 1..Len(test_names) |->
        Record(th, cluster_id, test_names, p,
               SimilarFrom(th, test_names, p,
                   [q \in 1..Len(test_names) |->
                       Similarity(test_names[p], test_names[q], sem, cov)], 1),
               cluster_level)]

RECURSIVE RecordsFrom(_, _, _, _, _)
\* The outer loop of find_redundant_tests from cluster k on.
RecordsFrom(th, cluster_map, k, sem, cov) ==
    IF k > Len(cluster_map) THEN <<>>
    ELSE (IF Len(cluster_map[k][2]) < 2 THEN <<>>
          ELSE ClusterRecords(th, cluster_map[k][1], cluster_map[k][2], sem, cov,
                   analyze_cluster(th, cluster_map[k][2], sem, cov).redundancy_level))
         \o RecordsFrom(th, cluster_map, k + 1, sem, cov)

\* RedundancyAnalyzer.find_redundant_tests: redundancy_records.
find_redundant_tests(th, cluster_map, sem, cov) ==
    RecordsFrom(th, cluster_map, 1, sem, cov)

\* The inputs of the analyzer: the names of the tests and, for each, one of
\* these pairs of a semantic and a coverage vector; <<>> stands for a test
\* the map has no vector for.
AnalyzedNames == <<"testA", "testB", "testC", "testD">>

VectorProfiles ==
    << [sem |-> <<1, 0>>, cov |-> <<1, 0>>],
       [sem |-> <<3, 4>>, cov |-> <<3, 4>>],
       [sem |-> <<>>, cov |-> <<3, 4>>],
       [sem |-> <<-1, 0>>, cov |-> <<>>] >>

\* semantic_map of the tests whose profile has a semantic vector.
SemanticMap(test_names, profile) ==
    [t \in {test_names[i] : i \in {j \in 1..Len(test_names) : VectorProfiles[profile[j]].sem # <<>>}} |->
        VectorProfiles[profile[CHOOSE i \in 1..Len(test_names) : test_names[i] = t]].sem]

\* coverage_map of the tests whose profile has a coverage vector.
CoverageMap(test_names, profile) ==
    [t \in {test_names[i] : i \in {j \in 1..Len(test_names) : VectorProfiles[profile[j]].cov # <<>>}} |->
        VectorProfiles[profile[CHOOSE i \in 1..Len(test_names) : test_names[i] = t]].cov]

\* The thresholds classify_redundancy is checked on: every ordered list of
\* four of these values.
ThresholdValues == {15000, 25000, 40000, 60000}

OrderedThresholds ==
    {th \in [low : ThresholdValues, moderate : ThresholdValues,
             high : ThresholdValues, very_high : ThresholdValues] :
        th.low <= th.moderate /\ th.moderate <= th.high /\ th.high <= th.very_high}

\* The scores it is checked on: each value, its neighbours, and the ends.
ScoreValues ==
    UNION {{t - 1, t, t + 1} : t \in ThresholdValues} \cup {-100000, 0, 100000}

-----------------------------------------------------------------------------
(* clustering/kmeans.py: KMeansClusterer with a fixed n_clusters.  The     *)
(* feature matrix is the sequence of its rows; a row is its number among   *)
(* the different rows.                                                     *)

\* sklearn's KMeans.fit_predict(vectors) for n_clusters = k: equal rows get
\* one label, labels are in 0..k-1, and as many labels are used as there are
\* clusters or different rows, whichever is less.
fit_predict(rows, k) ==
    {labels \in [1..Len(rows) -> 0..(k - 1)] :
        /\ \A i \in 1..Len(rows) : \A j \in 1..Len(rows) :
              rows[i] = rows[j] => labels[i] = labels[j]
        /\ Cardinality(Range(labels)) = Min({k, Cardinality(Range(rows))})}

\* sklearn's silhouette_score(vectors, labels) raises ValueError unless the
\* number of labels is between 2 and n_samples - 1.
silhouette_raises(rows, labels) ==
    ~(1 < Cardinality(Range(labels)) /\ Cardinality(Range(labels)) < Len(rows))

\* What cluster leaves: whether it raised, and the dict it returned.
ClusterOutcome(raised, cluster_dict) == [raised |-> raised, clusters |-> cluster_dict]

\* cluster from the call of fit_predict on, for the labels it returned.
AfterFit(rows, k, labels) ==
    IF k > 1 /\ k < Len(rows) /\ silhouette_raises(rows, labels)
    THEN ClusterOutcome(TRUE, <<>>)
    ELSE ClusterOutcome(FALSE, prepare_clusters(labels))

\* KMeansClusterer(n_clusters=n).cluster(vectors): every outcome.
cluster(n, rows) ==
    IF Len(rows) < 2
    THEN {ClusterOutcome(FALSE, << <<0, [i \in 1..Len(rows) |-> i - 1]>> >>)}
    ELSE {AfterFit(rows, Min({n, Len(rows)}), labels) :
            labels \in fit_predict(rows, Min({n, Len(rows)}))}

\* The feature matrices: at most MaxSamples rows of MaxDistinctRows values.
FeatureMatrices ==
    UNION {[1..n -> 1..MaxDistinctRows] : n \in 0..MaxSamples}

-----------------------------------------------------------------------------
(* clustering/kmeans.py: KMeansClusterer with n_clusters=None.  The mean   *)
(* silhouette score of the clustering into k clusters is scores[k].        *)

\* self.min_clusters after the adjustment for duplicate rows.
AdjustedMinClusters(min_c, n_unique) ==
    IF n_unique < min_c THEN Max({2, n_unique}) ELSE min_c

\* n_clusters_found: the labels fit_predict uses for k clusters.
ClustersFound(rows, k) == Min({k, Cardinality(Range(rows))})

\* valid_k: the k of the loop whose clustering was scored; a silhouette_score
\* that raises is caught and the k skipped.
ValidK(min_c, max_k, rows) ==
    {k \in min_c..max_k :
        /\ k < Len(rows)
        /\ ClustersFound(rows, k) > 1
        /\ ClustersFound(rows, k) < Len(rows)}

\* valid_k[np.argmax(scores)]: the first k, in ascending order, with the
\* highest score.
ArgMaxK(valid, scores) ==
    Min({k \in valid : \A j \in valid : scores[j] <= scores[k]})

\* _find_optimal_k from the loop on, for the adjusted min_clusters.
SearchK(min_c, max_k, n_unique, valid, scores) ==
    IF max_k < min_c THEN min_c
    ELSE IF valid # {} THEN ArgMaxK(valid, scores)
    ELSE Min({min_c, n_unique})

\* _find_optimal_k from the computation of max_k on.
OptimalKFrom(min_c, max_k, rows, scores) ==
    SearchK(min_c, max_k, Cardinality(Range(rows)), ValidK(min_c, max_k, rows), scores)

\* KMeansClusterer._find_optimal_k(vectors) for self.min_clusters = min_c and
\* self.max_clusters = max_c.
find_optimal_k(min_c, max_c, rows, scores) ==
    OptimalKFrom(AdjustedMinClusters(min_c, Cardinality(Range(rows))),
                 Min({max_c, Len(rows) - 1, Cardinality(Range(rows))}),
                 rows, scores)

\* cluster from the construction of SklearnKMeans(n_clusters=k) on: sklearn
\* raises ValueError when there are fewer samples than clusters.
ClusterWithK(rows, k) ==
    IF k > Len(rows) THEN {ClusterOutcome(TRUE, <<>>)}
    ELSE {AfterFit(rows, k, labels) : labels \in fit_predict(rows, k)}

\* The feature matrices of automatic selection.
AutoMatrices ==
    UNION {[1..n -> 1..MaxAutoRows] : n \in 0..MaxAutoSamples}

\* The k whose clustering can be scored, and the scores they can get.
ScoredK == 2..(MaxAutoSamples - 1)

ScoreTables == [ScoredK -> 1..MaxScore]

-----------------------------------------------------------------------------
(* pipeline/kmeans_pipeline.py: KMeansPipeline post-processing.  A cluster  *)
(* map is the sequence of its (id, tests) items in insertion order.        *)

\* small_clusters: the items with fewer than min_size tests, noise excepted.
SmallClusters(cluster_map, min_size) ==
    SelectSeq(cluster_map, LAMBDA item : Len(item[2]) < min_size /\ item[1] # -1)

\* large_clusters: the items with min_size tests or more.
LargeClusters(cluster_map, min_size) ==
    SelectSeq(cluster_map, LAMBDA item : Len(item[2]) >= min_size)

\* max(large_clusters.keys(), key=len of the cluster): the first of the largest.
LargestClusterId(large_clusters) ==
    large_clusters[Min({i \in 1..Len(large_clusters) :
                          \A j \in 1..Len(large_clusters) :
                             Len(large_clusters[j][2]) <= Len(large_clusters[i][2])})][1]

RECURSIVE SmallTests(_)
\* The tests the loop over small_clusters appends, in order.
SmallTests(small_clusters) ==
    IF small_clusters = <<>> THEN <<>>
    ELSE Head(small_clusters)[2] \o SmallTests(Tail(small_clusters))

\* merged_clusters after the loop: the largest cluster extended.
MergedClusters(large_clusters, largest_cluster_id, small_tests) ==
    [i \in 1..Len(large_clusters) |->
        IF large_clusters[i][1] = largest_cluster_id
        THEN <<largest_cluster_id, large_clusters[i][2] \o small_tests>>
        ELSE large_clusters[i]]

RECURSIVE SortedItems(_)
\* sorted(merged_clusters.items()): by cluster id.
SortedItems(items) ==
    IF items = <<>> THEN <<>>
    ELSE LET first == CHOOSE i \in 1..Len(items) :
                         \A j \in 1..Len(items) : items[i][1] <= items[j][1]
         IN <<items[first]>>
            \o SortedItems(SubSeq(items, 1, first - 1) \o SubSeq(items, first + 1, Len(items)))

\* reindexed: the sorted items numbered from 0.
Reindexed(sorted_items) ==
    [idx \in 1..Len(sorted_items) |-> <<idx - 1, sorted_items[idx][2]>>]

\* What _merge_small_clusters returns.
MergeOutcome(cluster_map, merge_count) ==
    [clusters |-> cluster_map, merge_count |-> merge_count]

\* _merge_small_clusters once both dicts are known to be non-empty.
MergeInto(small_clusters, large_clusters) ==
    MergeOutcome(Reindexed(SortedItems(MergedClusters(large_clusters,
                                                      LargestClusterId(large_clusters),
                                                      SmallTests(small_clusters)))),
                 Len(small_clusters))

\* The two early returns of _merge_small_clusters, and the merge.
MergeOrKeep(cluster_map, small_clusters, large_clusters) ==
    IF small_clusters = <<>> THEN MergeOutcome(cluster_map, 0)
    ELSE IF large_clusters = <<>> THEN MergeOutcome(cluster_map, 0)
    ELSE MergeInto(small_clusters, large_clusters)

\* KMeansPipeline._merge_small_clusters(clusters, min_size)
merge_small_clusters(cluster_map, min_size) ==
    MergeOrKeep(cluster_map, SmallClusters(cluster_map, min_size),
                LargeClusters(cluster_map, min_size))

\* The cluster part of KMeansPipeline.postprocess_clusters: min_cluster_size = 2.
postprocess_clusters(cluster_map) == merge_small_clusters(cluster_map, 2)

\* The tests of a k-means run and the cluster maps its labels give.
MergeNames == <<"testA", "testB", "testC", "testD", "testE">>

MergeClusterMaps ==
    UNION { {NamedClusters(prepare_clusters(labels), SubSeq(MergeNames, 1, n)) :
                labels \in [1..n -> 0..MaxMergeId]} : n \in 0..MaxMergeTests }

\* All tests of a cluster map, cluster after cluster.
RECURSIVE TestsOf(_)
TestsOf(cluster_map) ==
    IF cluster_map = <<>> THEN <<>>
    ELSE Head(cluster_map)[2] \o TestsOf(Tail(cluster_map))

-----------------------------------------------------------------------------
(* clustering/dbscan.py: DBSCANClusterer.cluster up to the call of sklearn. *)

\* int(n_samples * 0.02) and int(n_samples * 0.05)
TwoPercent(n_samples) == (n_samples * 2) \div 100
FivePercent(n_samples) == (n_samples * 5) \div 100

\* adaptive_min_samples, from the number of samples and self.min_samples.
adaptive_min_samples(n_samples, self_min_samples) ==
    IF n_samples > 100 THEN Max({5, TwoPercent(n_samples)})
    ELSE IF n_samples > 50 THEN Max({3, FivePercent(n_samples)})
    ELSE self_min_samples

\* {-1: list(range(n_samples))}
AllNoise(n_samples) == << <<-1, [i \in 1..n_samples |-> i - 1]>> >>

\* What a call leaves behind: the min_samples it used, and the map it returned
\* itself, if it did not hand the vectors to SklearnDBSCAN.
DbscanCall(used_min_samples, all_noise, noise_map) ==
    [min_samples |-> used_min_samples, all_noise |-> all_noise, clusters |-> noise_map]

\* The edge case of cluster, with self.min_samples already adjusted.
DbscanOutcome(n_samples, self_min_samples) ==
    IF n_samples < self_min_samples
    THEN DbscanCall(self_min_samples, TRUE, AllNoise(n_samples))
    ELSE DbscanCall(self_min_samples, FALSE, <<>>)

-----------------------------------------------------------------------------
(* core/tokenizer.py: PHPTokenizer.  The regular expressions are evaluated  *)
(* on the characters of the text, as re.sub and re.findall evaluate them.  *)

\* \s of the re module, on ASCII.
WhiteSpace == {" ", "\t", "\n", "\r", "\f"}
Letters == CharsOf(UpperLetters) \cup CharsOf(LowerLetters)
Quotes == {"\"", "'"}

\* s[i - 1 : i], the empty string outside of s.
CharAt(s, i) == IF i >= 1 /\ i <= Len(s) THEN SubSeq(s, i, i) ELSE ""

\* A greedy X*: the last position of the longest run of chars that starts at
\* position i, i - 1 if there is none.
RunEnd(s, i, chars) ==
    IF i > Len(s) THEN i - 1
    ELSE IF \A j \in i..Len(s) : SubSeq(s, j, j) \in chars THEN Len(s)
    ELSE Min({j \in i..Len(s) : SubSeq(s, j, j) \notin chars}) - 1

\* The first position from i on that holds one of stops, len(s) + 1 if none does.
StopAt(s, i, stops) ==
    IF \A j \in i..Len(s) : SubSeq(s, j, j) \notin stops THEN Len(s) + 1
    ELSE Min({j \in i..Len(s) : SubSeq(s, j, j) \in stops})

\* The first position from i on where w occurs, 0 if there is none.
FindFrom(s, i, w) ==
    IF \A j \in i..Len(s) : ~OccursAt(s, j, w) THEN 0
    ELSE Min({j \in i..Len(s) : OccursAt(s, j, w)})

RECURSIVE CutLineComments(_, _)
\* re.sub(marker + r'.*?$', '', text, flags=re.MULTILINE): each comment is cut
\* from its marker to the end of its line.
CutLineComments(text, marker) ==
    IF FindFrom(text, 1, marker) = 0 THEN text
    ELSE SubSeq(text, 1, FindFrom(text, 1, marker) - 1)
         \o CutLineComments(SubSeq(text, StopAt(text, FindFrom(text, 1, marker), {"\n"}),
                                   Len(text)), marker)

\* The end of the block comment that opens at position i, 0 if it is not closed.
BlockEnd(text, i) == IF i = 0 THEN 0 ELSE FindFrom(text, i + 2, "*/")

RECURSIVE CutBlockComments(_)
\* re.sub(r'/\*.*?\*/', '', text, flags=re.DOTALL)
CutBlockComments(text) ==
    IF BlockEnd(text, FindFrom(text, 1, "/*")) = 0 THEN text
    ELSE SubSeq(text, 1, FindFrom(text, 1, "/*") - 1)
         \o CutBlockComments(SubSeq(text, BlockEnd(text, FindFrom(text, 1, "/*")) + 2,
                                    Len(text)))

\* PHPTokenizer._remove_comments(text)
remove_comments(text) ==
    CutLineComments(CutBlockComments(CutLineComments(text, "//")), "#")

\* A match of a pattern at one position: where it ends and what findall
\* returns for it; NoMatchAt where the pattern does not match.
MatchAt(end, group) == <<end, group>>
NoMatchAt == <<0, "">>

RECURSIVE Scan(_, _)
\* The matches findall returns: the leftmost, then on from its end.
Scan(matches, i) ==
    IF i > Len(matches) THEN <<>>
    ELSE IF matches[i][1] = 0 THEN Scan(matches, i + 1)
    ELSE <<matches[i][2]>> \o Scan(matches, matches[i][1] + 1)

\* re.findall(pattern, text), Match(text, i) being the match of pattern at i.
FindAll(text, Match(_, _)) == Scan([i \in 1..Len(text) |-> Match(text, i)], 1)

\* keyword\s+(\w+) with the blanks ending at se.
NameAfterBlanks(s, first, se) ==
    IF se >= first /\ RunEnd(s, se + 1, WordChars) > se
    THEN MatchAt(RunEnd(s, se + 1, WordChars), SubSeq(s, se + 1, RunEnd(s, se + 1, WordChars)))
    ELSE NoMatchAt

\* r'keyword\s+(\w+)' at position i.
DeclaredName(s, i, keyword) ==
    IF OccursAt(s, i, keyword)
    THEN NameAfterBlanks(s, i + Len(keyword), RunEnd(s, i + Len(keyword), WhiteSpace))
    ELSE NoMatchAt

\* r'function\s+(\w+)'
FunctionName(s, i) == DeclaredName(s, i, "function")
\* r'class\s+(\w+)'
ClassName(s, i) == DeclaredName(s, i, "class")

EndsWith(s, w) == Len(s) >= Len(w) /\ SubSeq(s, Len(s) - Len(w) + 1, Len(s)) = w

\* re.match(r'.*Test(Case|Duplicate)?$', name), name being made of \w.
IsTestClassName(name) ==
    EndsWith(name, "Test") \/ EndsWith(name, "TestCase") \/ EndsWith(name, "TestDuplicate")

\* ->(\w+)\s*\( with the name ending at we.
CallOf(s, i, we) ==
    IF we >= i + 2 /\ CharAt(s, RunEnd(s, we + 1, WhiteSpace) + 1) = "("
    THEN MatchAt(RunEnd(s, we + 1, WhiteSpace) + 1, SubSeq(s, i + 2, we))
    ELSE NoMatchAt

\* r'->(\w+)\s*\('
MethodCall(s, i) ==
    IF OccursAt(s, i, "->") THEN CallOf(s, i, RunEnd(s, i + 2, WordChars)) ELSE NoMatchAt

\* s[i : i + len(w)].lower() == w
OccursAtIgnoreCase(s, i, w) ==
    /\ i + Len(w) - 1 <= Len(s)
    /\ lower(SubSeq(s, i, i + Len(w) - 1)) = w

\* r'assert\w*', re.IGNORECASE: the whole match.
Assertion(s, i) ==
    IF OccursAtIgnoreCase(s, i, "assert")
    THEN MatchAt(RunEnd(s, i + 6, WordChars), SubSeq(s, i, RunEnd(s, i + 6, WordChars)))
    ELSE NoMatchAt

test_keywords ==
    <<"test", "expect", "mock", "stub", "spy", "fake", "fixture", "teardown", "setup">>

\* The keyword found at i, with the words that follow it up to the \b.
KeywordOf(s, i, found) ==
    IF found = {} THEN NoMatchAt
    ELSE MatchAt(RunEnd(s, i + Len(test_keywords[Min(found)]), WordChars),
                 SubSeq(s, i, i + Len(test_keywords[Min(found)]) - 1))

\* r'\b(test|expect|mock|stub|spy|fake|fixture|teardown|setup)\w*\b',
\* re.IGNORECASE: group 1.
TestKeyword(s, i) ==
    IF WordBoundary(s, i)
    THEN KeywordOf(s, i, {k \in 1..Len(test_keywords) : OccursAtIgnoreCase(s, i, test_keywords[k])})
    ELSE NoMatchAt

\* r'\$([a-zA-Z_]\w{2,})'
Variable(s, i) ==
    IF /\ CharAt(s, i) = "$"
       /\ CharAt(s, i + 1) \in Letters \cup {"_"}
       /\ RunEnd(s, i + 2, WordChars) >= i + 3
    THEN MatchAt(RunEnd(s, i + 2, WordChars), SubSeq(s, i + 1, RunEnd(s, i + 2, WordChars)))
    ELSE NoMatchAt

\* r'["\']([^"\']{3,})["\']'
StringLiteral(s, i) ==
    IF /\ CharAt(s, i) \in Quotes
       /\ StopAt(s, i + 1, Quotes) >= i + 4
       /\ StopAt(s, i + 1, Quotes) <= Len(s)
    THEN MatchAt(StopAt(s, i + 1, Quotes), SubSeq(s, i + 1, StopAt(s, i + 1, Quotes) - 1))
    ELSE NoMatchAt

\* all_tokens of _extract_tokens
all_tokens(text) ==
    FindAll(text, FunctionName)
    \o SelectSeq(FindAll(text, ClassName), LAMBDA name : ~IsTestClassName(name))
    \o FindAll(text, MethodCall)
    \o FindAll(text, Assertion)
    \o FindAll(text, TestKeyword)
    \o FindAll(text, Variable)
    \o FindAll(text, StringLiteral)

RECURSIVE CamelSpaced(_)
\* re.sub(r'([a-z])([A-Z])', r'\1 \2', token)
CamelSpaced(token) ==
    IF Len(token) < 2 THEN token
    ELSE IF SubSeq(token, 1, 1) \in CharsOf(LowerLetters) /\ SubSeq(token, 2, 2) \in CharsOf(UpperLetters)
    THEN SubSeq(token, 1, 1) \o " " \o SubSeq(token, 2, 2) \o CamelSpaced(SubSeq(token, 3, Len(token)))
    ELSE SubSeq(token, 1, 1) \o CamelSpaced(SubSeq(token, 2, Len(token)))

RECURSIVE SplitBlanks(_)
\* str.split(): the words between runs of white space.
SplitBlanks(s) ==
    IF s = "" THEN <<>>
    ELSE IF SubSeq(s, 1, 1) \in WhiteSpace THEN SplitBlanks(SubSeq(s, 2, Len(s)))
    ELSE <<SubSeq(s, 1, StopAt(s, 1, WhiteSpace) - 1)>>
         \o SplitBlanks(SubSeq(s, StopAt(s, 1, WhiteSpace), Len(s)))

RECURSIVE processed_tokens(_)
\* The loop of _extract_tokens: the token, its camelCase parts, its snake_case parts.
processed_tokens(tokens) ==
    IF tokens = <<>> THEN <<>>
    ELSE <<Head(tokens)>> \o SplitBlanks(CamelSpaced(Head(tokens))) \o Split(Head(tokens), "_")
         \o processed_tokens(Tail(tokens))

\* PHPTokenizer._extract_tokens(text)
extract_tokens(text) ==
    SelectSeq(processed_tokens(all_tokens(text)), LAMBDA t : Len(t) > 1)

\* PHPTokenizer.stop_words
stop_words ==
    {"the", "and", "or", "but", "in", "on", "at", "to", "for",
     "of", "with", "a", "an", "is", "it", "this", "that", "these",
     "those", "are", "was", "were", "been", "be", "have", "has",
     "had", "do", "does", "did", "will", "would", "should", "could",
     "can", "may", "might", "must", "shall", "as", "if", "when",
     "where", "why", "how", "what", "which", "who", "whom", "whose"}

RECURSIVE LowerAll(_)
\* [token.lower() for token in tokens]
LowerAll(tokens) ==
    IF tokens = <<>> THEN <<>> ELSE <<lower(Head(tokens))>> \o LowerAll(Tail(tokens))

\* The last two steps of tokenize.
WithoutStopWords(tokens) == SelectSeq(tokens, LAMBDA token : token \notin stop_words)

\* PHPTokenizer.tokenize(text, lowercase)
tokenize(text, lowercase) ==
    WithoutStopWords(IF lowercase THEN LowerAll(extract_tokens(remove_comments(text)))
                     ELSE extract_tokens(remove_comments(text)))

-----------------------------------------------------------------------------
(* core/vectorizers.py: TFIDFVectorizer.  min_df and max_df are in          *)
(* hundredths; an IDF weight ln(N / df) + 1 is the pair (N, df), and a     *)
(* value of the matrix the triple of the count and that pair.              *)

\* An attribute that is None, and one that is set.
None == <<>>
Some(value) == <<value>>

\* The defaults of TFIDFVectorizer.__init__
default_max_features == 1000
default_min_df == 1
default_max_df == 95

\* The characters of a token of \w and blanks, in the order of their code points.
AsciiOrder == " " \o Digits \o UpperLetters \o "_" \o LowerLetters

Ord(c) == CHOOSE i \in 1..Len(AsciiOrder) : SubSeq(AsciiOrder, i, i) = c

RECURSIVE StrLess(_, _)
\* a < b on Python strings.
StrLess(a, b) ==
    IF b = "" THEN FALSE
    ELSE IF a = "" THEN TRUE
    ELSE IF SubSeq(a, 1, 1) # SubSeq(b, 1, 1) THEN Ord(SubSeq(a, 1, 1)) < Ord(SubSeq(b, 1, 1))
    ELSE StrLess(SubSeq(a, 2, Len(a)), SubSeq(b, 2, Len(b)))

RECURSIVE SortedStrings(_)
\* sorted(tokens), tokens being distinct strings.
SortedStrings(tokens) ==
    IF tokens = {} THEN <<>>
    ELSE LET first == CHOOSE t \in tokens : \A u \in tokens \ {t} : StrLess(t, u)
         IN <<first>> \o SortedStrings(tokens \ {first})

\* doc_freq[token]: the documents that hold the token.
DocFreq(tokenized_docs, token) ==
    Cardinality({d \in 1..Len(tokenized_docs) : token \in Range(tokenized_docs[d])})

\* int(self.min_df * self.document_count_), and the same for max_df.
DfCount(df_hundredths, document_count) == (df_hundredths * document_count) \div 100

\* filtered_tokens, before the cut to max_features.
FilteredTokens(tokenized_docs, min_df, max_df) ==
    {token \in UNION {Range(tokenized_docs[d]) : d \in 1..Len(tokenized_docs)} :
        /\ DfCount(min_df, Len(tokenized_docs)) <= DocFreq(tokenized_docs, token)
        /\ DocFreq(tokenized_docs, token) <= DfCount(max_df, Len(tokenized_docs))}

\* The cut to max_features: the tokens of the highest document frequency; among
\* tokens of one frequency the order is that of the Counter, which follows the
\* iteration of a set of strings.
TopFeatures(tokenized_docs, filtered_tokens, max_features) ==
    IF Cardinality(filtered_tokens) > max_features
    THEN {kept \in SUBSET filtered_tokens :
            /\ Cardinality(kept) = max_features
            /\ \A t \in kept : \A u \in filtered_tokens \ kept :
                  DocFreq(tokenized_docs, t) >= DocFreq(tokenized_docs, u)}
    ELSE {filtered_tokens}

\* self.idf_ after fit, for the vocabulary in index order.
IdfOf(tokenized_docs, vocabulary, use_idf) ==
    IF use_idf
    THEN Some([idx \in 1..Len(vocabulary) |->
                 <<Len(tokenized_docs), DocFreq(tokenized_docs, vocabulary[idx])>>])
    ELSE None

\* The index of a token in the vocabulary, from 0.
FeatureIdx(vocabulary, token) ==
    (CHOOSE idx \in 1..Len(vocabulary) : vocabulary[idx] = token) - 1

\* Counter(tokens)[token]
Count(tokens, token) == Cardinality({i \in 1..Len(tokens) : tokens[i] = token})

\* The values of the matrix: document, feature, count of the token, its IDF.
MatrixEntries(tokenized_docs, vocabulary, idf) ==
    {<<doc_idx - 1, FeatureIdx(vocabulary, token), Count(tokenized_docs[doc_idx], token),
       IF idf = None THEN None ELSE idf[1][FeatureIdx(vocabulary, token) + 1]>> :
        doc_idx \in 1..Len(tokenized_docs),
        token \in Range(vocabulary)} \ 
    {<<doc_idx - 1, FeatureIdx(vocabulary, token), 0,
       IF idf = None THEN None ELSE idf[1][FeatureIdx(vocabulary, token) + 1]>> :
        doc_idx \in 1..Len(tokenized_docs),
        token \in Range(vocabulary)}

\* What transform returns or raises.
NotFittedError == "TF-IDF vectorizer not fitted. Call fit() method before transform() or use fit_transform() instead."
TransformRaised(message) == [error |-> message, shape |-> <<0, 0>>, entries |-> {}]
TransformReturned(shape, entries) == [error |-> "", shape |-> shape, entries |-> entries]

\* The check `not self.vocabulary_`, which an empty vocabulary passes too.
IsNoneOrEmpty(vocabulary_attr) == vocabulary_attr = None \/ vocabulary_attr = Some(<<>>)

\* The check at the head of transform: self.vocabulary_ is None
IsNotFitted(vocabulary_attr) == vocabulary_attr = None

\* TFIDFVectorizer.transform on the tokens of the documents.
transform(tokenized_docs, vocabulary_attr, idf) ==
    IF IsNotFitted(vocabulary_attr) THEN TransformRaised(NotFittedError)
    ELSE TransformReturned(<<Len(tokenized_docs), Len(vocabulary_attr[1])>>,
                           MatrixEntries(tokenized_docs, vocabulary_attr[1], idf))

\* The sources the vectorizer is given, and their tokens.
TvDocuments == <<"function getUser()", "$user->login()">>

TokensOfDocument == [doc \in Range(TvDocuments) |-> tokenize(doc, TRUE)]

\* [self.tokenizer.tokenize(doc) for doc in documents]
Tokenized(documents) == [d \in 1..Len(documents) |-> TokensOfDocument[documents[d]]]

Corpora == UNION {[1..n -> Range(TvDocuments)] : n \in 0..MaxDocuments}

-----------------------------------------------------------------------------
(* factories.py: the registries of clusterers and reducers.  A registry is  *)
(* the function from its keys to the names of the classes.                 *)

\* CLUSTERERS and REDUCERS as the import of the module leaves them.
ClusterersAtImport ==
    [name \in CLUSTERERS |->
        CASE name = "kmeans" -> "KMeansClusterer"
          [] name = "dbscan" -> "DBSCANClusterer"
          [] name = "hierarchical" -> "HierarchicalClusterer"]

ReducersAtImport ==
    [name \in {"pca", "tsne", "random"} |->
        CASE name = "pca" -> "PCAReducer"
          [] name = "tsne" -> "TSNEReducer"
          [] name = "random" -> "RandomProjectionReducer"]

\* The classes of the model: the subclasses of Clusterer, those of Reducer, and
\* a class that is neither.
ClustererClasses ==
    {"KMeansClusterer", "DBSCANClusterer", "HierarchicalClusterer", "SpectralClusterer"}
ReducerClasses == {"PCAReducer", "TSNEReducer", "RandomProjectionReducer", "UMAPReducer"}
OtherClasses == {"dict"}

\* A check that lets a subclass of either interface into either registry.
IsComponentClass(cls, kind) == cls \in ClustererClasses \cup ReducerClasses

\* issubclass(cls, Clusterer) for kind "clusterer", issubclass(cls, Reducer)
\* for kind "reducer".
IsSubclassOf(cls, kind) ==
    IF kind = "clusterer" THEN cls \in ClustererClasses ELSE cls \in ReducerClasses

\* registry[name] = cls
SetItem(registry, name, cls) ==
    [key \in DOMAIN registry \cup {name} |-> IF key = name THEN cls ELSE registry[key]]

\* What a call of the factory functions returns or raises.
FactoryRaised(error) == [raised |-> error, instance_of |-> ""]
FactoryReturned(cls) == [raised |-> "", instance_of |-> cls]

\* get_clusterer(name) and get_reducer(name) on their registry.
get_component(registry, name) ==
    IF name \notin DOMAIN registry THEN FactoryRaised("ValueError")
    ELSE FactoryReturned(registry[name])

\* register_clusterer(name, cls) and register_reducer(name, cls): the registry
\* afterwards.
register_component(registry, name, cls, kind) ==
    IF ~IsSubclassOf(cls, kind) THEN registry ELSE SetItem(registry, name, cls)

\* What the register functions raise.
RegisterOutcome(cls, kind) ==
    IF ~IsSubclassOf(cls, kind) THEN FactoryRaised("TypeError") ELSE FactoryReturned("")

\* The names and classes the factory functions are called with.
FactoryNames == {"kmeans", "KMeans", "spectral", "pca"}
FactoryClasses == {"SpectralClusterer", "DBSCANClusterer", "UMAPReducer", "dict"}
FactoryKinds == {"clusterer", "reducer"}

\* The class the history of registrations gives a name, NoClass if none.
NoClass == "no class"

ClassAtImport(kind, name) ==
    IF kind = "clusterer"
    THEN (IF name \in DOMAIN ClusterersAtImport THEN ClusterersAtImport[name] ELSE NoClass)
    ELSE (IF name \in DOMAIN ReducersAtImport THEN ReducersAtImport[name] ELSE NoClass)

LatestOf(history, kind, name, hits) ==
    IF hits = {} THEN ClassAtImport(kind, name) ELSE history[Max(hits)][3]

LatestClass(history, kind, name) ==
    LatestOf(history, kind, name,
             {i \in 1..Len(history) : history[i][1] = kind /\ history[i][2] = name})

-----------------------------------------------------------------------------
(* pipeline/factory.py: PipelineFactory with the classes of its registry.  *)

\* PipelineFactory._pipelines as the import of the module leaves it.
PipelinesAtImport ==
    [name \in RegisteredAtImport |->
        CASE name \in {"kmeans", "k-means"} -> "KMeansPipeline"
          [] name = "dbscan" -> "DBSCANPipeline"
          [] name \in {"hierarchical", "agglomerative", "hac"} -> "HierarchicalPipeline"]

\* The subclasses of BasePipeline.
PipelineClasses ==
    {"KMeansPipeline", "DBSCANPipeline", "HierarchicalPipeline", "SpectralPipeline"}

\* A key that keeps the letter case of the name.
KeyAsGiven(algorithm_name) == algorithm_name

\* The key of an algorithm in _pipelines: algorithm.lower()
PipelineKey(algorithm_name) == lower(algorithm_name)

\* PipelineFactory.create(algorithm, config)
create(registry, algorithm_name) ==
    IF PipelineKey(algorithm_name) \notin DOMAIN registry THEN FactoryRaised("ValueError")
    ELSE FactoryReturned(registry[PipelineKey(algorithm_name)])

\* cls._pipelines after PipelineFactory.register(algorithm, pipeline_class)
register_pipeline(registry, algorithm_name, pipeline_class) ==
    IF pipeline_class \notin PipelineClasses THEN registry
    ELSE SetItem(registry, PipelineKey(algorithm_name), pipeline_class)

\* The names and classes PipelineFactory is called with.
PipelineNames == {"kmeans", "KMeans", "K-MEANS", "HAC", "spectral", "Spectral", "SPECTRAL"}
RegisterClasses == {"SpectralPipeline", "DBSCANPipeline", "dict"}

-----------------------------------------------------------------------------
(* core/features.py: FeatureCombiner.  A combined vector is kept as the     *)
(* integer vector and the square of the norm it was divided by.            *)

\* The defaults of FeatureCombiner.__init__
default_semantic_dim == 128
default_coverage_dim == 512

RECURSIVE SumSquares(_, _, _)
\* np.linalg.norm(vector) ** 2, over the entries from first to last; the sum
\* is taken by halves.
SumSquares(vector, first, last) ==
    IF first > last THEN 0
    ELSE IF first = last THEN vector[first] * vector[first]
    ELSE SumSquares(vector, first, (first + last) \div 2)
         + SumSquares(vector, (first + last) \div 2 + 1, last)

\* A vector divided by the square root of divisor_sq.
Scaled(vector, divisor_sq) == [vector |-> vector, divisor_sq |-> divisor_sq]

\* l2_normalize(vector): the zero vector, divided by epsilon, stays zero.
l2_normalize_by(vector, norm_sq) ==
    IF norm_sq = 0 THEN Scaled(vector, 1) ELSE Scaled(vector, norm_sq)

l2_normalize(vector) == l2_normalize_by(vector, SumSquares(vector, 1, Len(vector)))

\* The combined vector of a combiner that normalizes whatever its flag says.
combined_normalized(semantic_vec, coverage_vec, normalize) ==
    l2_normalize(semantic_vec \o coverage_vec)

\* combined, from np.concatenate to the normalization on request.
combined_vector(semantic_vec, coverage_vec, normalize) ==
    IF normalize THEN l2_normalize(semantic_vec \o coverage_vec)
    ELSE Scaled(semantic_vec \o coverage_vec, 1)

\* np.zeros(dim)
Zeros(dim) == [i \in 1..dim |-> 0]

\* vectors.get(test_name, np.zeros(dim)) on a map that holds None for a test
\* it has no vector of.
GetOrZeros(vector_map, test_name, dim) ==
    IF vector_map[test_name] = None THEN Zeros(dim) ELSE vector_map[test_name][1]

\* all_tests: the keys of either map.
AllTests(semantic_map, coverage_map) ==
    {t \in DOMAIN semantic_map : semantic_map[t] # None \/ coverage_map[t] # None}

\* What combine_features and split_features return or raise.
FeaturesRaised == [raised |-> TRUE, vectors |-> <<>>]
FeaturesReturned(vector_map) == [raised |-> FALSE, vectors |-> vector_map]

\* The dimension checks of combine_features for one test.
WrongDimension(semantic_map, coverage_map, test_name, semantic_dim, coverage_dim) ==
    \/ Len(GetOrZeros(semantic_map, test_name, semantic_dim)) # semantic_dim
    \/ Len(GetOrZeros(coverage_map, test_name, coverage_dim)) # coverage_dim

\* FeatureCombiner.combine_features(semantic_vectors, coverage_vectors)
combine_features(semantic_map, coverage_map, semantic_dim, coverage_dim, normalize) ==
    IF \E t \in AllTests(semantic_map, coverage_map) :
          WrongDimension(semantic_map, coverage_map, t, semantic_dim, coverage_dim)
    THEN FeaturesRaised
    ELSE FeaturesReturned(
            [t \in AllTests(semantic_map, coverage_map) |->
                combined_vector(GetOrZeros(semantic_map, t, semantic_dim),
                                GetOrZeros(coverage_map, t, coverage_dim), normalize)])

\* FeatureCombiner.split_features(combined_vector): the two slices.
split_features(combined, semantic_dim, coverage_dim) ==
    IF Len(combined.vector) # semantic_dim + coverage_dim THEN <<>>
    ELSE <<Scaled(SubSeq(combined.vector, 1, semantic_dim), combined.divisor_sq),
           Scaled(SubSeq(combined.vector, semantic_dim + 1, Len(combined.vector)),
                  combined.divisor_sq)>>

\* The vectors the combiner is given: of the dimension, one shorter or one
\* longer, filled by a pattern.
PatternVector(length, pattern) == [i \in 1..length |-> (i * pattern) % 3]

SuppliedVectors(dim) ==
    {None} \cup {Some(PatternVector(length, pattern)) :
                    length \in {dim - 1, dim, dim + 1}, pattern \in 0..MaxPattern}

FeatureTests == {"testA", "testB"}

\* testA with any supplied vector, testB with a vector of the dimension or none.
VectorMaps(dim) ==
    {[t \in FeatureTests |-> IF t = "testA" THEN a ELSE b] :
        a \in SuppliedVectors(dim), b \in {None, Some(PatternVector(dim, 1))}}

-----------------------------------------------------------------------------
(* core/tokenizer.py: extract_test_name.                                   *)

PathSeparators == {"/", "\\"}

\* $ at position p: the end of the string, or just before a newline that ends it.
AtEnd(s, p) == p = Len(s) + 1 \/ (p = Len(s) /\ SubSeq(s, p, p) = "\n")

\* (?:Test)?\.php$ from position p on.
PhpSuffixAt(s, p) ==
    \/ OccursAt(s, p, "Test.php") /\ AtEnd(s, p + 8)
    \/ OccursAt(s, p, ".php") /\ AtEnd(s, p + 4)

\* The ends ([^/\\]+) can take when it starts at position i, for a match of
\* r'([^/\\]+)(?:Test)?\.php$'.
FileGroupEnds(s, i) ==
    {e \in i..(StopAt(s, i, PathSeparators) - 1) : PhpSuffixAt(s, e + 1)}

\* group(1) of re.search(r'([^/\\]+)(?:Test)?\.php$', s) for the starts that
\* match: the leftmost start, and from it the longest group.
FileGroup(s, starts) ==
    IF starts = {} THEN None
    ELSE Some(SubSeq(s, Min(starts), Max(FileGroupEnds(s, Min(starts)))))

FileName(s) == FileGroup(s, {i \in 1..Len(s) : FileGroupEnds(s, i) # {}})

\* The end of marker(\w+)$ when it starts at position i, 0 if it does not match.
MethodEnd(s, i, marker) ==
    IF /\ OccursAt(s, i, marker)
       /\ RunEnd(s, i + Len(marker), WordChars) >= i + Len(marker)
       /\ AtEnd(s, RunEnd(s, i + Len(marker), WordChars) + 1)
    THEN RunEnd(s, i + Len(marker), WordChars)
    ELSE 0

MethodGroup(s, marker, starts) ==
    IF starts = {} THEN None
    ELSE Some(SubSeq(s, Min(starts) + Len(marker), MethodEnd(s, Min(starts), marker)))

\* group(1) of re.search(marker + r'(\w+)$', s), marker being '::', '#' or '@'.
MethodName(s, marker) ==
    MethodGroup(s, marker, {i \in 1..Len(s) : MethodEnd(s, i, marker) # 0})

\* re.split(r'[/\\::#@]', test_path)[-1]: what follows the last of the characters.
LastComponent(s) ==
    IF \A i \in 1..Len(s) : SubSeq(s, i, i) \notin {"/", "\\", ":", "#", "@"} THEN s
    ELSE SubSeq(s, Max({i \in 1..Len(s) : SubSeq(s, i, i) \in {"/", "\\", ":", "#", "@"}}) + 1,
                Len(s))

\* The end of extract_test_name: the last component without its .php.
WithoutPhp(last) ==
    IF EndsWith(last, ".php") THEN SubSeq(last, 1, Len(last) - 4) ELSE last

NameOrNone(last) == IF last = "" THEN None ELSE Some(last)

\* The loop over the patterns: the first that matches gives the name.
FirstPattern(s, matches) ==
    IF \A k \in 1..Len(matches) : matches[k] = None
    THEN NameOrNone(WithoutPhp(LastComponent(s)))
    ELSE matches[Min({k \in 1..Len(matches) : matches[k] # None})]

\* extract_test_name(test_path)
extract_test_name(path) ==
    FirstPattern(path, <<FileName(path), MethodName(path, "::"),
                         MethodName(path, "#"), MethodName(path, "@")>>)

\* The paths and identifiers extract_test_name is applied to.
PathPrefixes == <<"", "tests/Unit/", "/path/to/", "UserTest", "App\\Tests\\UserTest", "C:\\t\\">>
PathMarkers == <<"", "::", "#", "@", "/">>
PathNames == <<"", "AuthTest", "UserTest", "testCanLogin", "not_a_test", "Test">>
PathSuffixes == <<"", ".php", "\n", ".php.bak">>

TestPaths ==
    {PathPrefixes[p] \o PathMarkers[m] \o PathNames[n] \o PathSuffixes[x] :
        p \in 1..Len(PathPrefixes), m \in 1..Len(PathMarkers),
        n \in 1..Len(PathNames), x \in 1..Len(PathSuffixes)}

\* The texts tokenize is applied to.
TextPrefixes == <<"", "function ", "class ", "$", "$this->", "'", "// ", "new ">>
TextWords ==
    <<"getUserByEmail", "test_user_can_create_post", "UserTest", "the", "assertTrue", "is",
      "", "mockUser expectX", "a/*b", "setUp_it">>
TextSuffixes ==
    <<"", "()", "'", " and can", "/* the */", " (", "#x\nfunction ab", "*/ 'the user'">>

TokenizerTexts ==
    {TextPrefixes[p] \o TextWords[w] \o TextSuffixes[x] :
        p \in 1..Len(TextPrefixes), w \in 1..Len(TextWords), x \in 1..Len(TextSuffixes)}
    \cup {"the user is in the system and can do this", "TestUserLogin"}

-----------------------------------------------------------------------------
(* cli/main.py: main, from the namespace parse_args has returned.          *)

\* The subcommands of create_parser; args.command is None without one.
Subcommands == {"vectorize", "cluster", "analyze", "validate"}
NoSubcommand == "None"

\* How the process ends: its exit status, the command whose execute was
\* called, whether help was printed and whether an error was logged.
ProcessEnd(status, executed, help_printed, error_logged) ==
    [status |-> status, executed |-> executed, help_printed |-> help_printed,
     error_logged |-> error_logged]

\* An exit status that takes no notice of what execute raised.
StatusIgnoringErrors(raised) == 0

\* The status after the try block: sys.exit(1) in the handler, 0 at the end of main.
StatusAfterExecute(raised) == IF raised THEN 1 ELSE 0

\* main() for args.command, failing being the commands whose execute raises.
main(command, failing) ==
    IF command \notin Subcommands THEN ProcessEnd(1, {}, TRUE, FALSE)
    ELSE ProcessEnd(StatusAfterExecute(command \in failing), {command}, FALSE,
                    command \in failing)

-----------------------------------------------------------------------------
(* TSNEReducer (src/ml/analysis/reduction.py).                              *)

default_perplexity == 30

Perplexities == {1, 2, default_perplexity}

NoEmbedding == [raised |-> FALSE, fitted |-> FALSE, n_components |-> 0, perplexity |-> 0]

\* The only test reduce makes of n_dims before it builds the TSNE estimator.
RejectsTarget(n_dims) == n_dims > 3

\* reduce: ValueError for a rejected target, or else TSNE(n_components = n_dims,
\* perplexity = min(self.perplexity, n_samples - 1)).fit_transform(vectors).
reduce(self_perplexity, n_samples, n_dims) ==
    IF RejectsTarget(n_dims)
    THEN [raised |-> TRUE, fitted |-> FALSE, n_components |-> 0, perplexity |-> 0]
    ELSE [raised |-> FALSE, fitted |-> TRUE, n_components |-> n_dims,
          perplexity |-> Min({self_perplexity, n_samples - 1})]

-----------------------------------------------------------------------------
(* analysis/redundancy.py: RedundancyAnalyzer.summarize_redundancy.         *)

\* The levels summarize_redundancy would count if it left out MODERATE.
CountsAsRedundantAboveModerate(status) ==
    status \in {"high_redundancy", "very_high_redundancy"}

\* The levels whose counts summarize_redundancy adds up: moderate or higher.
CountsAsRedundant(status) ==
    status \in {"moderate_redundancy", "high_redundancy", "very_high_redundancy"}

\* level_counts: for every value of RedundancyLevel, the records with it.
LevelCounts(records) ==
    [l \in {"none"} \cup Range(RedundancyLevels) |->
        Cardinality({r \in 1..Len(records) : records[r].redundancy_status = l})]

\* count / total_tests * 100, as the pair <<count * 100, total_tests>>, or 0.
Percentage(count, total_tests) ==
    IF total_tests > 0 THEN <<count * 100, total_tests>> ELSE 0

\* The dict summarize_redundancy returns, from level_counts.
Summary(total_tests, level_counts, redundant_count) ==
    [total_tests |-> total_tests,
     redundant_tests |-> redundant_count,
     redundancy_rate |-> Percentage(redundant_count, total_tests),
     level_counts |-> level_counts,
     level_percentages |-> [l \in DOMAIN level_counts |->
                               Percentage(level_counts[l], total_tests)]]

\* RedundancyAnalyzer.summarize_redundancy
summarize_redundancy(records) ==
    Summary(Len(records), LevelCounts(records),
            Cardinality({r \in 1..Len(records) :
                           CountsAsRedundant(records[r].redundancy_status)}))

-----------------------------------------------------------------------------
(* analysis/validation.py: the intent cache of several SemanticValidators.  *)

\* The validators, each built by its own call of SemanticValidator(config).
Validators == {"validator_a", "validator_b"}

\* The names the validators are called with.
CachedNames == {"test_login_success", "testAssertError404", "testAssertSuccess"}

\* The lists validate_cluster is called with.
ValidatedLists ==
    UNION { Perms(names) : names \in { S \in SUBSET CachedNames :
                                        Cardinality(S) \in 1..MaxValidated } }

\* One dict shared by every instance, as a class attribute would be.
StoreShared(caches, validator, cache) == [v \in DOMAIN caches |-> cache]

\* self._intent_cache is the dict the instance made in __init__: a write to it
\* changes the cache of that instance.
StoreCache(caches, validator, cache) == [caches EXCEPT ![validator] = cache]

\* The category of each test of the list, from the intent extract_test_intent
\* returns for it.
CachedCategories(cache, test_names) ==
    [i \in 1..Len(test_names) |->
        CategoryFrom(DOMAIN extract_test_intent(cache, test_names[i]), lower(test_names[i]))]

\* categories[cat], in cluster order.
TestsOfCategory(test_names, cats, cat) ==
    LET at == {i \in 1..Len(test_names) : cats[i] = cat}
        RECURSIVE From(_)
        From(i) == IF i > Len(test_names) THEN <<>>
                   ELSE (IF i \in at THEN <<test_names[i]>> ELSE <<>>) \o From(i + 1)
    IN From(1)

\* The dict validate_cluster builds from what its calls of
\* tests_have_opposing_intents and extract_test_intent returned.
CachedValidation(test_names, conflicts, cats, order) ==
    [is_safe |-> conflicts = {},
     conflicts |-> conflicts,
     categories |-> [k \in 1..Len(order) |->
                        <<order[k], TestsOfCategory(test_names, cats, order[k])>>],
     has_mixed_categories |-> Len(order) > 1,
     cluster_size |-> Len(test_names)]

\* SemanticValidator.validate_cluster of a validator whose cache is `cache`:
\* each intent it reads is the cached one when the name was cached, and the
\* one it computes, caches and reads again afterwards otherwise.
validate_cluster_cached(cache, config, test_names) ==
    CachedValidation(test_names,
        {<<i, j>> \in (1..Len(test_names)) \X (1..Len(test_names)) :
            i < j /\ tests_have_opposing_intents(cache, config, test_names[i], test_names[j])[1]},
        CachedCategories(cache, test_names),
        CategoryOrder(CachedCategories(cache, test_names), {}))

\* A call of a method of a validator.
Call(validator, method, args) == [validator |-> validator, method |-> method, args |-> args]

NoCall == Call("none", "none", <<>>)

\* What a validator without a cache returns for the call.
UncachedResult(config, call) ==
    IF call.method = "extract_test_intent" THEN IntentTable[call.args[1]]
    ELSE IF call.method = "tests_have_opposing_intents"
    THEN CompareIntents(config, call.args[1], call.args[2],
                        IntentTable[call.args[1]], IntentTable[call.args[2]])
    ELSE validate_cluster(config, call.args)

-----------------------------------------------------------------------------
(* analysis/entropy.py, pipeline/base.py and pipeline/orchestrator.py: the  *)
(* EntropyAnalyzer attached to the analysis stage.  The diagnostics of an   *)
(* analyzer are the set of the tests it analyzed, one entry per test.       *)

\* The tests of the sources a run is given.
EntropyTests == {"testA", "testB"}

Strategies == {"modular", "legacy"}

\* EntropyAnalyzer.__init__: self.diagnostics = []
NoDiagnostics == {}

\* EntropyAnalyzer.calculate_entropy_weights: diagnostics is emptied, then
\* gets one entry for every test that has a semantic or a coverage vector.
calculate_entropy_weights(diagnostics, semantic_tests, coverage_tests) ==
    semantic_tests \cup coverage_tests

NoDataMarker == [error |-> "No entropy analysis data available"]

\* EntropyAnalyzer.summarize_entropy_analysis: the marker when nothing was
\* analyzed, else the statistics, of which total_tests is kept here (the
\* minima, maxima, means and deviations of the entropies are left out).
summarize_entropy_analysis(diagnostics) ==
    IF diagnostics = NoDiagnostics THEN NoDataMarker
    ELSE [total_tests |-> Cardinality(diagnostics)]

\* An analysis stage that is always given the analyzer of the orchestrator.
OrchestratorAnalyzer(strategy_used, damping, pipeline_analyzer, orchestrator_analyzer) ==
    Some(orchestrator_analyzer)

\* The analyzer the AnalysisStage of the run is built with: BasePipeline
\* attaches the one it made in its __init__; the legacy strategy attaches
\* the orchestrator's when damping is on and None otherwise.
AttachedAnalyzer(strategy_used, damping, pipeline_analyzer, orchestrator_analyzer) ==
    IF strategy_used = "modular" THEN Some(pipeline_analyzer)
    ELSE IF damping THEN Some(orchestrator_analyzer)
    ELSE None

\* AnalysisStage.process, its 'entropy_summary': None when the result has no
\* such key.
EntropySummary(analyzer) ==
    IF analyzer = None THEN None
    ELSE Some(summarize_entropy_analysis(analyzer[1]))

-----------------------------------------------------------------------------
(* The state of each component before it is used.                          *)

NoOutcome == [returned_count |-> -1]

OppIdle ==
    /\ test1 = ""
    /\ test2 = ""
    /\ opp_config = DefaultValidationConfig
    /\ opp_result = <<FALSE, "">>
    /\ intent_cache = EmptyCache

ValIdle ==
    /\ val_config = DefaultValidationConfig
    /\ clusters = <<>>
    /\ val_pc = "idle"
    /\ val_out = NoOutcome

PipeIdle ==
    /\ pipelines = RegisteredAtImport
    /\ max_conflicts_per_cluster = 0
    /\ pipe_last = "idle"
    /\ algorithm = ""
    /\ use_new_pipeline = "None"
    /\ validate_clusters = TRUE
    /\ strategy = "none"
    /\ run_clusters = <<>>
    /\ run_out = RunOutcome(FALSE, FALSE, <<>>)

ResIdle ==
    /\ results = EmptyResults
    /\ files = [f \in FileNames |-> NoFile]
    /\ rm_last = "idle"
    /\ save_csv = TRUE
    /\ save_written = {}
    /\ set_count = 0

AnaIdle ==
    /\ thresholds = DefaultThresholds
    /\ similarity_score = 0
    /\ level = "idle"
    /\ ana_clusters = <<>>
    /\ semantic_vectors = <<>>
    /\ coverage_vectors = <<>>
    /\ redundancy_records = <<>>
    /\ ana_pc = "idle"

KmIdle ==
    /\ n_clusters = 1
    /\ vectors = <<>>
    /\ km_pc = "idle"
    /\ km_out = ClusterOutcome(FALSE, <<>>)

AkIdle ==
    /\ min_clusters_arg = 2
    /\ min_clusters = 2
    /\ max_clusters = 10
    /\ ak_vectors = <<>>
    /\ ak_scores = <<>>
    /\ optimal_k_ = 0
    /\ ak_pc = "idle"
    /\ ak_out = ClusterOutcome(FALSE, <<>>)

MgIdle ==
    /\ mg_clusters = <<>>
    /\ mg_pc = "idle"
    /\ mg_out = MergeOutcome(<<>>, 0)

DbIdle ==
    /\ db_min_samples_arg = 3
    /\ db_min_samples = 3
    /\ db_n_samples = 0
    /\ db_pc = "idle"
    /\ db_out = DbscanCall(3, FALSE, <<>>)

TvIdle ==
    /\ tv_max_features = default_max_features
    /\ tv_min_df = default_min_df
    /\ tv_max_df = default_max_df
    /\ tv_use_idf = TRUE
    /\ vocabulary_ = None
    /\ idf_ = None
    /\ document_count_ = 0
    /\ tv_documents = <<>>
    /\ tv_fit_documents = <<>>
    /\ tv_last = "idle"
    /\ tv_result = TransformReturned(<<0, 0>>, {})
    /\ tv_fit_completed = FALSE

FacIdle ==
    /\ clusterers = ClusterersAtImport
    /\ reducers = ReducersAtImport
    /\ fac_last = "idle"
    /\ fac_kind = "clusterer"
    /\ fac_name = ""
    /\ fac_class = ""
    /\ fac_result = FactoryReturned("")
    /\ fac_registered = <<>>

PfIdle ==
    /\ pf_pipelines = PipelinesAtImport
    /\ pf_last = "idle"
    /\ pf_algorithm = ""
    /\ pf_class = ""
    /\ pf_result = FactoryReturned("")
    /\ pf_registered = <<>>

FcIdle ==
    /\ fc_semantic_dim = default_semantic_dim
    /\ fc_coverage_dim = default_coverage_dim
    /\ fc_normalize = TRUE
    /\ fc_semantic_vectors = <<>>
    /\ fc_coverage_vectors = <<>>
    /\ fc_combined = FeaturesReturned(<<>>)
    /\ fc_split = <<>>
    /\ fc_pc = "idle"

XnIdle ==
    /\ test_path = ""
    /\ xn_result = None
    /\ xn_pc = "idle"

TkIdle ==
    /\ tk_text = ""
    /\ tk_lowercase = TRUE
    /\ tk_tokens = <<>>
    /\ tk_pc = "idle"

CliIdle ==
    /\ cli_command = NoSubcommand
    /\ cli_quiet = FALSE
    /\ cli_failing = {}
    /\ cli_pc = "idle"
    /\ cli_end = ProcessEnd(0, {}, FALSE, FALSE)

TsneIdle ==
    /\ tsne_perplexity = default_perplexity
    /\ tsne_n_samples = 1
    /\ tsne_n_dims = 2
    /\ tsne_pc = "idle"
    /\ tsne_out = NoEmbedding

SplitIdle ==
    /\ split_tests = <<>>
    /\ split_pc = "idle"
    /\ split_groups = <<>>

SumIdle ==
    /\ sum_pc = "idle"
    /\ red_summary = Summary(0, LevelCounts(<<>>), 0)

SvIdle ==
    /\ sv_config = ValidationConfig(FALSE, FALSE)
    /\ sv_caches = [v \in Validators |-> EmptyCache]
    /\ sv_seen = [v \in Validators |-> {}]
    /\ sv_call = NoCall
    /\ sv_result = <<>>

EnIdle ==
    /\ en_strategy = "none"
    /\ en_damping = FALSE
    /\ en_tests = {}
    /\ en_orchestrator = NoDiagnostics
    /\ en_pipeline = NoDiagnostics
    /\ en_pc = "idle"
    /\ en_summary = None

CoreIdle == OppIdle /\ ValIdle /\ PipeIdle /\ ResIdle /\ AnaIdle /\ KmIdle

ExtIdle == AkIdle /\ MgIdle /\ DbIdle /\ TvIdle /\ FacIdle /\ PfIdle /\ FcIdle /\ XnIdle /\ TkIdle /\ CliIdle /\ TsneIdle /\ SplitIdle /\ SumIdle /\ SvIdle /\ EnIdle

\* The other components idle, for each of the later components.
AkRestIdle == CoreIdle /\ MgIdle /\ DbIdle /\ TvIdle /\ FacIdle /\ PfIdle /\ FcIdle /\ XnIdle /\ TkIdle /\ CliIdle /\ TsneIdle /\ SplitIdle /\ SumIdle /\ SvIdle /\ EnIdle
MgRestIdle == CoreIdle /\ AkIdle /\ DbIdle /\ TvIdle /\ FacIdle /\ PfIdle /\ FcIdle /\ XnIdle /\ TkIdle /\ CliIdle /\ TsneIdle /\ SplitIdle /\ SumIdle /\ SvIdle /\ EnIdle
DbRestIdle == CoreIdle /\ AkIdle /\ MgIdle /\ TvIdle /\ FacIdle /\ PfIdle /\ FcIdle /\ XnIdle /\ TkIdle /\ CliIdle /\ TsneIdle /\ SplitIdle /\ SumIdle /\ SvIdle /\ EnIdle
TvRestIdle == CoreIdle /\ AkIdle /\ MgIdle /\ DbIdle /\ FacIdle /\ PfIdle /\ FcIdle /\ XnIdle /\ TkIdle /\ CliIdle /\ TsneIdle /\ SplitIdle /\ SumIdle /\ SvIdle /\ EnIdle
FacRestIdle == CoreIdle /\ AkIdle /\ MgIdle /\ DbIdle /\ TvIdle /\ PfIdle /\ FcIdle /\ XnIdle /\ TkIdle /\ CliIdle /\ TsneIdle /\ SplitIdle /\ SumIdle /\ SvIdle /\ EnIdle
PfRestIdle == CoreIdle /\ AkIdle /\ MgIdle /\ DbIdle /\ TvIdle /\ FacIdle /\ FcIdle /\ XnIdle /\ TkIdle /\ CliIdle /\ TsneIdle /\ SplitIdle /\ SumIdle /\ SvIdle /\ EnIdle
FcRestIdle == CoreIdle /\ AkIdle /\ MgIdle /\ DbIdle /\ TvIdle /\ FacIdle /\ PfIdle /\ XnIdle /\ TkIdle /\ CliIdle /\ TsneIdle /\ SplitIdle /\ SumIdle /\ SvIdle /\ EnIdle
XnRestIdle == CoreIdle /\ AkIdle /\ MgIdle /\ DbIdle /\ TvIdle /\ FacIdle /\ PfIdle /\ FcIdle /\ TkIdle /\ CliIdle /\ TsneIdle /\ SplitIdle /\ SumIdle /\ SvIdle /\ EnIdle
TkRestIdle == CoreIdle /\ AkIdle /\ MgIdle /\ DbIdle /\ TvIdle /\ FacIdle /\ PfIdle /\ FcIdle /\ XnIdle /\ CliIdle /\ TsneIdle /\ SplitIdle /\ SumIdle /\ SvIdle /\ EnIdle
CliRestIdle == CoreIdle /\ AkIdle /\ MgIdle /\ DbIdle /\ TvIdle /\ FacIdle /\ PfIdle /\ FcIdle /\ XnIdle /\ TkIdle /\ TsneIdle /\ SplitIdle /\ SumIdle /\ SvIdle /\ EnIdle
TsneRestIdle == CoreIdle /\ AkIdle /\ MgIdle /\ DbIdle /\ TvIdle /\ FacIdle /\ PfIdle /\ FcIdle /\ XnIdle /\ TkIdle /\ CliIdle /\ SplitIdle /\ SumIdle /\ SvIdle /\ EnIdle
SplitRestIdle == CoreIdle /\ AkIdle /\ MgIdle /\ DbIdle /\ TvIdle /\ FacIdle /\ PfIdle /\ FcIdle /\ XnIdle /\ TkIdle /\ CliIdle /\ TsneIdle /\ SumIdle /\ SvIdle /\ EnIdle
SumRestIdle == CoreIdle /\ AkIdle /\ MgIdle /\ DbIdle /\ TvIdle /\ FacIdle /\ PfIdle /\ FcIdle /\ XnIdle /\ TkIdle /\ CliIdle /\ TsneIdle /\ SplitIdle /\ SvIdle /\ EnIdle
SvRestIdle == CoreIdle /\ AkIdle /\ MgIdle /\ DbIdle /\ TvIdle /\ FacIdle /\ PfIdle /\ FcIdle /\ XnIdle /\ TkIdle /\ CliIdle /\ TsneIdle /\ SplitIdle /\ SumIdle /\ EnIdle
EnRestIdle == CoreIdle /\ AkIdle /\ MgIdle /\ DbIdle /\ TvIdle /\ FacIdle /\ PfIdle /\ FcIdle /\ XnIdle /\ TkIdle /\ CliIdle /\ TsneIdle /\ SplitIdle /\ SumIdle /\ SvIdle
\* End of the idle predicates.

-----------------------------------------------------------------------------
(* One SemanticValidator whose tests_have_opposing_intents is called.      *)

OppInit ==
    /\ test1 = ""
    /\ test2 = ""
    /\ opp_config \in ValidationConfigs
    /\ opp_result = <<FALSE, "">>
    /\ intent_cache = EmptyCache
    /\ ValIdle /\ PipeIdle /\ ResIdle /\ AnaIdle /\ KmIdle /\ ExtIdle

\* opp_result = validator.tests_have_opposing_intents(t1, t2)
Compare ==
    \E t1 \in TestNames, t2 \in TestNames :
        /\ Cardinality((DOMAIN intent_cache) \cup {t1, t2}) <= MaxCached
        /\ test1' = t1
        /\ test2' = t2
        /\ opp_result' = tests_have_opposing_intents(intent_cache, opp_config, t1, t2)
        /\ intent_cache' = CacheAfter(intent_cache, {t1, t2})
        /\ UNCHANGED <<opp_config, valVars, pipeVars, resVars, anaVars, kmVars, extVars>>

OppNext == Compare

SpecOpposing == OppInit /\ [][OppNext]_vars

-----------------------------------------------------------------------------
(* One ValidationStage and one call of its process.                        *)

ValInit ==
    /\ val_config \in ValidationConfigs
    /\ clusters \in ClusterMapsOf(TestSuites)
    /\ val_pc = "ready"
    /\ val_out = NoOutcome
    /\ OppIdle /\ PipeIdle /\ ResIdle /\ AnaIdle /\ KmIdle /\ ExtIdle

\* validated_clusters, split = ValidationStage(config).process(clusters)
Process ==
    /\ val_pc = "ready"
    /\ \E outcome \in process(val_config, clusters) : val_out' = outcome
    /\ val_pc' = "done"
    /\ UNCHANGED <<val_config, clusters, oppVars, pipeVars, resVars, anaVars, kmVars, extVars>>

ValNext == Process

SpecValidation == ValInit /\ [][ValNext]_vars

-----------------------------------------------------------------------------
(* The PipelineFactory registry and one RedundancyPipeline: any calls of   *)
(* register, then one call of run.                                         *)

PipeInit ==
    /\ pipelines = RegisteredAtImport
    /\ max_conflicts_per_cluster \in MaxConflictsPresets
    /\ pipe_last = "idle"
    /\ algorithm = ""
    /\ use_new_pipeline = "None"
    /\ validate_clusters = TRUE
    /\ strategy = "none"
    /\ run_clusters = <<>>
    /\ run_out = RunOutcome(FALSE, FALSE, <<>>)
    /\ OppIdle /\ ValIdle /\ ResIdle /\ AnaIdle /\ KmIdle /\ ExtIdle

\* PipelineFactory.register(name, pipeline_class), before the pipeline runs.
Register ==
    /\ pipe_last # "run"
    /\ \E name \in RegisterNames, is_pipeline_class \in BOOLEAN :
        /\ pipelines' = register(pipelines, name, is_pipeline_class)
        /\ pipe_last' = IF is_pipeline_class THEN "register" ELSE "register_raised"
        /\ UNCHANGED <<max_conflicts_per_cluster, algorithm, use_new_pipeline,
                       validate_clusters, strategy, run_clusters, run_out>>
        /\ UNCHANGED <<oppVars, valVars, resVars, anaVars, kmVars, extVars>>

\* pipeline.run(test_sources, coverage_data, algorithm=name,
\*              validate_clusters=validate, use_new_pipeline=flag);
\* cluster_map is what clustering and post-processing make of the inputs.
Run ==
    /\ pipe_last # "run"
    /\ \E name \in AlgorithmNames, flag \in UseNewPipelineValues, validate \in BOOLEAN,
          cluster_map \in PipelineClusterMaps :
        /\ algorithm' = name
        /\ use_new_pipeline' = flag
        /\ validate_clusters' = validate
        /\ run_clusters' = cluster_map
        /\ strategy' = StrategyOf(UseNewPipeline(flag, name, pipelines))
        /\ run_out' \in RunOutcomes(strategy', pipelines, max_conflicts_per_cluster,
                                    name, validate, cluster_map)
        /\ pipe_last' = "run"
        /\ UNCHANGED <<pipelines, max_conflicts_per_cluster>>
        /\ UNCHANGED <<oppVars, valVars, resVars, anaVars, kmVars, extVars>>

PipeNext == Register \/ Run

SpecPipeline == PipeInit /\ [][PipeNext]_vars

-----------------------------------------------------------------------------
(* One ResultManager saving into one output directory.                     *)

ResInit ==
    /\ results = EmptyResults
    /\ files = [f \in FileNames |-> NoFile]
    /\ rm_last = "new"
    /\ save_csv = TRUE
    /\ save_written = {}
    /\ set_count = 0
    /\ OppIdle /\ ValIdle /\ PipeIdle /\ AnaIdle /\ KmIdle /\ ExtIdle

\* result_manager.set_results(result)
SetResults ==
    /\ set_count < MaxResults
    /\ \E result \in ResultValues(set_count + 1) : results' = result
    /\ set_count' = set_count + 1
    /\ rm_last' = "set_results"
    /\ UNCHANGED <<files, save_csv, save_written>>
    /\ UNCHANGED <<oppVars, valVars, pipeVars, anaVars, kmVars, extVars>>

\* The state a finished save leaves, from <<files, written, raised>>.
Saved(saved, csv) ==
    /\ files' = saved[1]
    /\ save_written' = saved[2]
    /\ rm_last' = IF saved[3] THEN "save_raised" ELSE "save_returned"
    /\ save_csv' = csv

\* result_manager.save(output_dir, save_csv=csv)
Save ==
    \E csv \in BOOLEAN, truncated \in BOOLEAN :
      \E fail_at \in FailPoints(results, csv) :
        /\ Saved(save(files, results, csv, fail_at, truncated), csv)
        /\ UNCHANGED <<results, set_count>>
        /\ UNCHANGED <<oppVars, valVars, pipeVars, anaVars, kmVars, extVars>>

ResNext == SetResults \/ Save

SpecResults == ResInit /\ [][ResNext]_vars

-----------------------------------------------------------------------------
(* One RedundancyAnalyzer whose classify_redundancy is called.             *)

ClassifyInit ==
    /\ thresholds \in OrderedThresholds
    /\ similarity_score = 0
    /\ level = "idle"
    /\ ana_clusters = <<>>
    /\ semantic_vectors = <<>>
    /\ coverage_vectors = <<>>
    /\ redundancy_records = <<>>
    /\ ana_pc = "ready"
    /\ OppIdle /\ ValIdle /\ PipeIdle /\ ResIdle /\ KmIdle /\ ExtIdle

\* level = analyzer.classify_redundancy(score).value
Classify ==
    \E score \in ScoreValues :
        /\ similarity_score' = score
        /\ level' = classify_redundancy(thresholds, score)
        /\ ana_pc' = "classified"
        /\ UNCHANGED <<thresholds, ana_clusters, semantic_vectors, coverage_vectors,
                       redundancy_records>>
        /\ UNCHANGED <<oppVars, valVars, pipeVars, resVars, kmVars, extVars>>

ClassifyNext == Classify

SpecClassify == ClassifyInit /\ [][ClassifyNext]_vars

-----------------------------------------------------------------------------
(* One RedundancyAnalyzer and one call of its find_redundant_tests.        *)

\* The inputs of the call for n tests, labelled and given their vectors.
AnalyzerInputs(test_names, labels, profile) ==
    /\ ana_clusters = NamedClusters(prepare_clusters(labels), test_names)
    /\ semantic_vectors = SemanticMap(test_names, profile)
    /\ coverage_vectors = CoverageMap(test_names, profile)

RedInit ==
    /\ thresholds \in PresetThresholds \cup {DefaultThresholds}
    /\ similarity_score = 0
    /\ level = "idle"
    /\ \E n \in 0..MaxAnalyzed :
         \E labels \in LabelArrays(n), profile \in [1..n -> 1..Len(VectorProfiles)] :
            AnalyzerInputs(SubSeq(AnalyzedNames, 1, n), labels, profile)
    /\ redundancy_records = <<>>
    /\ ana_pc = "ready"
    /\ OppIdle /\ ValIdle /\ PipeIdle /\ ResIdle /\ KmIdle /\ ExtIdle

\* redundancy_records = analyzer.find_redundant_tests(clusters, semantic_map, coverage_map)
FindRedundant ==
    /\ ana_pc = "ready"
    /\ redundancy_records' =
          find_redundant_tests(thresholds, ana_clusters, semantic_vectors, coverage_vectors)
    /\ ana_pc' = "analyzed"
    /\ UNCHANGED <<thresholds, similarity_score, level, ana_clusters, semantic_vectors,
                   coverage_vectors>>
    /\ UNCHANGED <<oppVars, valVars, pipeVars, resVars, kmVars, extVars>>

\* red_summary = analyzer.summarize_redundancy(redundancy_records)
Summarize ==
    /\ ana_pc = "analyzed"
    /\ sum_pc = "idle"
    /\ red_summary' = summarize_redundancy(redundancy_records)
    /\ sum_pc' = "summarized"
    /\ UNCHANGED sumRest

RedNext == FindRedundant \/ Summarize

SpecRedundancy == RedInit /\ [][RedNext]_vars

-----------------------------------------------------------------------------
(* One KMeansClusterer with a fixed n_clusters and one call of cluster.    *)

KmInit ==
    /\ n_clusters \in 1..MaxK
    /\ vectors \in FeatureMatrices
    /\ km_pc = "ready"
    /\ km_out = ClusterOutcome(FALSE, <<>>)
    /\ OppIdle /\ ValIdle /\ PipeIdle /\ ResIdle /\ AnaIdle /\ ExtIdle

\* km_out.clusters = KMeansClusterer(n_clusters=n_clusters).cluster(vectors)
Cluster ==
    /\ km_pc = "ready"
    /\ km_out' \in cluster(n_clusters, vectors)
    /\ km_pc' = "done"
    /\ UNCHANGED <<n_clusters, vectors>>
    /\ UNCHANGED <<oppVars, valVars, pipeVars, resVars, anaVars, extVars>>

KmNext == Cluster

SpecKMeans == KmInit /\ [][KmNext]_vars

-----------------------------------------------------------------------------
(* One KMeansClusterer(n_clusters=None) and one call of its cluster.       *)

AkInit ==
    /\ min_clusters_arg \in 2..MaxMinClusters
    /\ min_clusters = min_clusters_arg
    /\ max_clusters \in min_clusters_arg..MaxK
    /\ ak_vectors \in AutoMatrices
    /\ ak_scores \in ScoreTables
    /\ optimal_k_ = 0
    /\ ak_pc = "ready"
    /\ ak_out = ClusterOutcome(FALSE, <<>>)
    /\ AkRestIdle

\* cluster on fewer than two samples returns before k is selected.
AutoClusterFew ==
    /\ ak_pc = "ready"
    /\ Len(ak_vectors) < 2
    /\ ak_out' = ClusterOutcome(FALSE, << <<0, [i \in 1..Len(ak_vectors) |-> i - 1]>> >>)
    /\ ak_pc' = "done"
    /\ UNCHANGED <<min_clusters_arg, min_clusters, max_clusters, ak_vectors, ak_scores,
                   optimal_k_>>
    /\ UNCHANGED akRest

\* ak_out.clusters = KMeansClusterer(None, min_clusters, max_clusters).cluster(ak_vectors)
AutoCluster ==
    /\ ak_pc = "ready"
    /\ Len(ak_vectors) >= 2
    /\ min_clusters' = AdjustedMinClusters(min_clusters, Cardinality(Range(ak_vectors)))
    /\ optimal_k_' = find_optimal_k(min_clusters, max_clusters, ak_vectors, ak_scores)
    /\ ak_out' \in ClusterWithK(ak_vectors, optimal_k_')
    /\ ak_pc' = "done"
    /\ UNCHANGED <<min_clusters_arg, max_clusters, ak_vectors, ak_scores>>
    /\ UNCHANGED akRest

AkNext == AutoClusterFew \/ AutoCluster

SpecAutoK == AkInit /\ [][AkNext]_vars

-----------------------------------------------------------------------------
(* One KMeansPipeline and one call of its postprocess_clusters.            *)

MgInit ==
    /\ mg_clusters \in MergeClusterMaps
    /\ mg_pc = "ready"
    /\ mg_out = MergeOutcome(<<>>, 0)
    /\ MgRestIdle

\* clusters, params = pipeline.postprocess_clusters(mg_clusters, params)
Postprocess ==
    /\ mg_pc = "ready"
    /\ mg_out' = postprocess_clusters(mg_clusters)
    /\ mg_pc' = "done"
    /\ UNCHANGED mg_clusters
    /\ UNCHANGED mgRest

MgNext == Postprocess

SpecMerge == MgInit /\ [][MgNext]_vars

-----------------------------------------------------------------------------
(* One DBSCANClusterer, its cluster method called again and again.         *)

\* DBSCANClusterer(min_samples=db_min_samples_arg)
DbInit ==
    /\ db_min_samples_arg \in 1..MaxMinSamples
    /\ db_min_samples = db_min_samples_arg
    /\ db_n_samples = 0
    /\ db_pc = "ready"
    /\ db_out = DbscanCall(db_min_samples_arg, FALSE, <<>>)
    /\ DbRestIdle

\* clusterer.cluster(vectors), vectors of n rows
DbscanCluster ==
    \E n \in 1..MaxDbSamples :
        /\ db_n_samples' = n
        /\ db_min_samples' = adaptive_min_samples(n, db_min_samples)
        /\ db_out' = DbscanOutcome(n, db_min_samples')
        /\ db_pc' = "called"
        /\ UNCHANGED db_min_samples_arg
        /\ UNCHANGED dbRest

DbNext == DbscanCluster

SpecDbscan == DbInit /\ [][DbNext]_vars

-----------------------------------------------------------------------------
(* One TFIDFVectorizer, its fit and transform called in any order.         *)

\* TFIDFVectorizer(max_features, min_df, max_df, use_idf)
TvInit ==
    /\ tv_max_features \in {SmallMaxFeatures, default_max_features}
    /\ tv_min_df = default_min_df
    /\ tv_max_df \in {default_max_df, 100}
    /\ tv_use_idf \in BOOLEAN
    /\ vocabulary_ = None
    /\ idf_ = None
    /\ document_count_ = 0
    /\ tv_documents = <<>>
    /\ tv_fit_documents = <<>>
    /\ tv_last = "new"
    /\ tv_result = TransformReturned(<<0, 0>>, {})
    /\ tv_fit_completed = FALSE
    /\ TvRestIdle

\* fit, from the tokens of the documents to the attributes it sets.
FitOn(tokenized_docs) ==
    \E kept \in TopFeatures(tokenized_docs,
                            FilteredTokens(tokenized_docs, tv_min_df, tv_max_df),
                            tv_max_features) :
        /\ vocabulary_' = Some(SortedStrings(kept))
        /\ idf_' = IdfOf(tokenized_docs, SortedStrings(kept), tv_use_idf)

\* vectorizer.fit(documents)
Fit ==
    \E documents \in Corpora :
        /\ tv_documents' = documents
        /\ tv_fit_documents' = documents
        /\ document_count_' = Len(documents)
        /\ FitOn(Tokenized(documents))
        /\ tv_fit_completed' = TRUE
        /\ tv_last' = "fit"
        /\ UNCHANGED <<tv_max_features, tv_min_df, tv_max_df, tv_use_idf, tv_result>>
        /\ UNCHANGED tvRest

\* vectorizer.transform(documents)
Transform ==
    \E documents \in Corpora :
        /\ tv_documents' = documents
        /\ tv_result' = transform(Tokenized(documents), vocabulary_, idf_)
        /\ tv_last' = "transform"
        /\ UNCHANGED <<tv_max_features, tv_min_df, tv_max_df, tv_use_idf, vocabulary_, idf_,
                       document_count_, tv_fit_documents, tv_fit_completed>>
        /\ UNCHANGED tvRest

TvNext == Fit \/ Transform

SpecTfidf == TvInit /\ [][TvNext]_vars

-----------------------------------------------------------------------------
(* The module factories after its import, its four functions called.       *)

FacInit ==
    /\ clusterers = ClusterersAtImport
    /\ reducers = ReducersAtImport
    /\ fac_last = "import"
    /\ fac_kind = "clusterer"
    /\ fac_name = ""
    /\ fac_class = ""
    /\ fac_result = FactoryReturned("")
    /\ fac_registered = <<>>
    /\ FacRestIdle

\* get_clusterer(name)
GetClusterer ==
    \E name \in FactoryNames :
        /\ fac_result' = get_component(clusterers, name)
        /\ fac_last' = "get"
        /\ fac_kind' = "clusterer"
        /\ fac_name' = name
        /\ UNCHANGED <<clusterers, reducers, fac_class, fac_registered>>
        /\ UNCHANGED facRest

\* get_reducer(name)
GetReducer ==
    \E name \in FactoryNames :
        /\ fac_result' = get_component(reducers, name)
        /\ fac_last' = "get"
        /\ fac_kind' = "reducer"
        /\ fac_name' = name
        /\ UNCHANGED <<clusterers, reducers, fac_class, fac_registered>>
        /\ UNCHANGED facRest

\* The record of a registration that went through.
Registered(kind, name, cls) ==
    IF IsSubclassOf(cls, kind)
    THEN Append(fac_registered, <<kind, name, cls>>)
    ELSE fac_registered

\* register_clusterer(name, cls)
RegisterClusterer ==
    /\ Len(fac_registered) < MaxRegistrations
    /\ \E name \in FactoryNames, cls \in FactoryClasses :
        /\ clusterers' = register_component(clusterers, name, cls, "clusterer")
        /\ fac_result' = RegisterOutcome(cls, "clusterer")
        /\ fac_registered' = Registered("clusterer", name, cls)
        /\ fac_last' = "register"
        /\ fac_kind' = "clusterer"
        /\ fac_name' = name
        /\ fac_class' = cls
        /\ UNCHANGED reducers
        /\ UNCHANGED facRest

\* register_reducer(name, cls)
RegisterReducer ==
    /\ Len(fac_registered) < MaxRegistrations
    /\ \E name \in FactoryNames, cls \in FactoryClasses :
        /\ reducers' = register_component(reducers, name, cls, "reducer")
        /\ fac_result' = RegisterOutcome(cls, "reducer")
        /\ fac_registered' = Registered("reducer", name, cls)
        /\ fac_last' = "register"
        /\ fac_kind' = "reducer"
        /\ fac_name' = name
        /\ fac_class' = cls
        /\ UNCHANGED clusterers
        /\ UNCHANGED facRest

FacNext == GetClusterer \/ GetReducer \/ RegisterClusterer \/ RegisterReducer

SpecFactories == FacInit /\ [][FacNext]_vars

-----------------------------------------------------------------------------
(* PipelineFactory after its import, create and register called.           *)

PfInit ==
    /\ pf_pipelines = PipelinesAtImport
    /\ pf_last = "import"
    /\ pf_algorithm = ""
    /\ pf_class = ""
    /\ pf_result = FactoryReturned("")
    /\ pf_registered = <<>>
    /\ PfRestIdle

\* PipelineFactory.create(algorithm, config)
CreatePipeline ==
    \E name \in PipelineNames :
        /\ pf_result' = create(pf_pipelines, name)
        /\ pf_last' = "create"
        /\ pf_algorithm' = name
        /\ UNCHANGED <<pf_pipelines, pf_class, pf_registered>>
        /\ UNCHANGED pfRest

\* PipelineFactory.register(algorithm, pipeline_class)
RegisterPipeline ==
    /\ Len(pf_registered) < MaxRegistrations
    /\ \E name \in PipelineNames, pipeline_class \in RegisterClasses :
        /\ pf_pipelines' = register_pipeline(pf_pipelines, name, pipeline_class)
        /\ pf_result' = IF pipeline_class \in PipelineClasses THEN FactoryReturned("")
                        ELSE FactoryRaised("ValueError")
        /\ pf_registered' = IF pipeline_class \in PipelineClasses
                            THEN Append(pf_registered, <<name, pipeline_class>>)
                            ELSE pf_registered
        /\ pf_last' = "register"
        /\ pf_algorithm' = name
        /\ pf_class' = pipeline_class
        /\ UNCHANGED pfRest

PfNext == CreatePipeline \/ RegisterPipeline

SpecPipelineFactory == PfInit /\ [][PfNext]_vars

-----------------------------------------------------------------------------
(* One FeatureCombiner: combine_features, then split_features on each       *)
(* combined vector.                                                        *)

FcDims ==
    /\ \/ fc_semantic_dim = default_semantic_dim /\ fc_coverage_dim = default_coverage_dim
       \/ fc_semantic_dim = SmallSemanticDim /\ fc_coverage_dim = SmallCoverageDim
    /\ fc_normalize \in BOOLEAN

\* FeatureCombiner(semantic_dim, coverage_dim, normalize)
FcInit ==
    /\ FcDims
    /\ fc_semantic_vectors \in VectorMaps(fc_semantic_dim)
    /\ fc_coverage_vectors \in VectorMaps(fc_coverage_dim)
    /\ fc_combined = FeaturesReturned(<<>>)
    /\ fc_split = <<>>
    /\ fc_pc = "ready"
    /\ FcRestIdle

\* combined = combiner.combine_features(semantic_vectors, coverage_vectors)
CombineFeatures ==
    /\ fc_pc = "ready"
    /\ fc_combined' = combine_features(fc_semantic_vectors, fc_coverage_vectors,
                                      fc_semantic_dim, fc_coverage_dim, fc_normalize)
    /\ fc_pc' = "combined"
    /\ UNCHANGED <<fc_semantic_dim, fc_coverage_dim, fc_normalize, fc_semantic_vectors,
                   fc_coverage_vectors, fc_split>>
    /\ UNCHANGED fcRest

\* combiner.split_features(combined[t]) for every test t
SplitFeatures ==
    /\ fc_pc = "combined"
    /\ ~fc_combined.raised
    /\ fc_split' = [t \in DOMAIN fc_combined.vectors |->
                      split_features(fc_combined.vectors[t], fc_semantic_dim, fc_coverage_dim)]
    /\ fc_pc' = "split"
    /\ UNCHANGED <<fc_semantic_dim, fc_coverage_dim, fc_normalize, fc_semantic_vectors,
                   fc_coverage_vectors, fc_combined>>
    /\ UNCHANGED fcRest

FcNext == CombineFeatures \/ SplitFeatures

SpecFeatures == FcInit /\ [][FcNext]_vars

-----------------------------------------------------------------------------
(* extract_test_name applied to one path.                                  *)

XnInit ==
    /\ test_path \in TestPaths
    /\ xn_result = None
    /\ xn_pc = "ready"
    /\ XnRestIdle

\* xn_result = extract_test_name(test_path)
ExtractTestName ==
    /\ xn_pc = "ready"
    /\ xn_result' = extract_test_name(test_path)
    /\ xn_pc' = "done"
    /\ UNCHANGED test_path
    /\ UNCHANGED xnRest

XnNext == ExtractTestName

SpecTestName == XnInit /\ [][XnNext]_vars

-----------------------------------------------------------------------------
(* One PHPTokenizer, its tokenize applied to one text.                     *)

TkInit ==
    /\ tk_text \in TokenizerTexts
    /\ tk_lowercase \in BOOLEAN
    /\ tk_tokens = <<>>
    /\ tk_pc = "ready"
    /\ TkRestIdle

\* tk_tokens = tokenizer.tokenize(tk_text, tk_lowercase)
Tokenize ==
    /\ tk_pc = "ready"
    /\ tk_tokens' = tokenize(tk_text, tk_lowercase)
    /\ tk_pc' = "done"
    /\ UNCHANGED <<tk_text, tk_lowercase>>
    /\ UNCHANGED tkRest

TkNext == Tokenize

SpecTokenizer == TkInit /\ [][TkNext]_vars

-----------------------------------------------------------------------------
(* One run of the command line, after its arguments were parsed.           *)

CliInit ==
    /\ cli_command \in Subcommands \cup {NoSubcommand}
    /\ cli_quiet \in BOOLEAN
    /\ cli_failing \in SUBSET Subcommands
    /\ cli_pc = "parsed"
    /\ cli_end = ProcessEnd(0, {}, FALSE, FALSE)
    /\ CliRestIdle

\* main() from the configuration of logging to the end of the process.
Main ==
    /\ cli_pc = "parsed"
    /\ cli_end' = main(cli_command, cli_failing)
    /\ cli_pc' = "exited"
    /\ UNCHANGED <<cli_command, cli_quiet, cli_failing>>
    /\ UNCHANGED cliRest

CliNext == Main

SpecCli == CliInit /\ [][CliNext]_vars

-----------------------------------------------------------------------------
(* One TSNEReducer whose reduce is called once.                             *)

TsneInit ==
    /\ tsne_perplexity \in Perplexities
    /\ tsne_n_samples \in 1..MaxTsneSamples
    /\ tsne_n_dims \in -1..MaxNDims
    /\ tsne_pc = "ready"
    /\ tsne_out = NoEmbedding
    /\ TsneRestIdle

TsneReduce ==
    /\ tsne_pc = "ready"
    /\ tsne_out' = reduce(tsne_perplexity, tsne_n_samples, tsne_n_dims)
    /\ tsne_pc' = "done"
    /\ UNCHANGED <<tsne_perplexity, tsne_n_samples, tsne_n_dims>>
    /\ UNCHANGED tsneRest

TsneNext == TsneReduce

SpecTsne == TsneInit /\ [][TsneNext]_vars

-----------------------------------------------------------------------------
(* One ClusterValidator whose _split_by_semantics is called once.           *)

SplitInputs ==
    UNION { Perms(names) : names \in { S \in SUBSET ClusterNames :
                                        Cardinality(S) \in 1..MaxSplitTests } }

SplitInit ==
    /\ split_tests \in SplitInputs
    /\ split_pc = "ready"
    /\ split_groups = <<>>
    /\ SplitRestIdle

\* groups = ClusterValidator()._split_by_semantics(tests)
SplitBySemantics ==
    /\ split_pc = "ready"
    /\ split_groups' \in split_by_semantics(split_tests)
    /\ split_pc' = "done"
    /\ UNCHANGED split_tests
    /\ UNCHANGED splitRest

SplitNext == SplitBySemantics

SpecSplit == SplitInit /\ [][SplitNext]_vars

-----------------------------------------------------------------------------
(* Two SemanticValidators built with one configuration, and any calls of    *)
(* their extract_test_intent, tests_have_opposing_intents, validate_cluster.*)

SvInit ==
    /\ sv_config \in ValidationConfigs
    /\ sv_caches = [v \in Validators |-> EmptyCache]
    /\ sv_seen = [v \in Validators |-> {}]
    /\ sv_call = NoCall
    /\ sv_result = <<>>
    /\ SvRestIdle

\* What every call leaves: the cache of the validator holds the names it read.
Called(validator, method, args) ==
    /\ sv_call' = Call(validator, method, args)
    /\ sv_caches' = StoreCache(sv_caches, validator,
                               CacheAfter(sv_caches[validator], Range(args)))
    /\ sv_seen' = [sv_seen EXCEPT ![validator] = @ \cup Range(args)]
    /\ UNCHANGED sv_config
    /\ UNCHANGED svRest

\* sv_result = validator.extract_test_intent(test_name)
ExtractIntent ==
    \E validator \in Validators, test_name \in CachedNames :
        /\ sv_result' = extract_test_intent(sv_caches[validator], test_name)
        /\ Called(validator, "extract_test_intent", <<test_name>>)

\* sv_result = validator.tests_have_opposing_intents(t1, t2)
OpposingIntentsCall ==
    \E validator \in Validators, t1 \in CachedNames, t2 \in CachedNames :
        /\ sv_result' = tests_have_opposing_intents(sv_caches[validator], sv_config, t1, t2)
        /\ Called(validator, "tests_have_opposing_intents", <<t1, t2>>)

\* sv_result = validator.validate_cluster(test_names)
ValidateCluster ==
    \E validator \in Validators, test_names \in ValidatedLists :
        /\ sv_result' = validate_cluster_cached(sv_caches[validator], sv_config, test_names)
        /\ Called(validator, "validate_cluster", test_names)

SvNext == ExtractIntent \/ OpposingIntentsCall \/ ValidateCluster

SpecCache == SvInit /\ [][SvNext]_vars

-----------------------------------------------------------------------------
(* One KMeansClusterer(n_clusters=None) whose cluster is called again and   *)
(* again, each time on another matrix.                                      *)

\* The matrices of the later calls: those whose rows are in ascending order.
LaterMatrices ==
    {rows \in AutoMatrices : \A i \in 1..(Len(rows) - 1) : rows[i] <= rows[i + 1]}

\* A later call of cluster on the same instance: self.min_clusters is what
\* the calls before left.
AutoClusterAgain ==
    /\ ak_pc = "done"
    /\ \E rows \in LaterMatrices :
          /\ ak_vectors' = rows
          /\ IF Len(rows) < 2
             THEN /\ ak_out' = ClusterOutcome(FALSE, << <<0, [i \in 1..Len(rows) |-> i - 1]>> >>)
                  /\ UNCHANGED <<min_clusters, optimal_k_>>
             ELSE /\ min_clusters' = AdjustedMinClusters(min_clusters, Cardinality(Range(rows)))
                  /\ optimal_k_' = find_optimal_k(min_clusters, max_clusters, rows, ak_scores)
                  /\ ak_out' \in ClusterWithK(rows, optimal_k_')
    /\ UNCHANGED <<min_clusters_arg, max_clusters, ak_scores, ak_pc>>
    /\ UNCHANGED akRest

AkCallsNext == AutoClusterFew \/ AutoCluster \/ AutoClusterAgain

SpecAutoKCalls == AkInit /\ [][AkCallsNext]_vars

-----------------------------------------------------------------------------
(* One RedundancyPipeline whose run is called again and again, with either  *)
(* strategy; en_orchestrator and en_pipeline are the diagnostics of the     *)
(* orchestrator's analyzer and of the analyzer of the pipeline that runs.   *)

EnInit ==
    /\ en_strategy = "none"
    /\ en_damping = FALSE
    /\ en_tests = {}
    /\ en_orchestrator = NoDiagnostics
    /\ en_pipeline = NoDiagnostics
    /\ en_pc = "new"
    /\ en_summary = None
    /\ EnRestIdle

\* run(test_sources, coverage_data, apply_entropy_damping=damping, ...) up to
\* the choice of the strategy; the modular strategy builds its pipeline, and
\* with it a new EntropyAnalyzer.
CallRun ==
    /\ en_pc \in {"new", "returned", "raised"}
    /\ \E strategy_used \in Strategies, damping \in BOOLEAN, tests \in SUBSET EntropyTests :
          /\ en_strategy' = strategy_used
          /\ en_damping' = damping
          /\ en_tests' = tests
          /\ en_pipeline' = IF strategy_used = "modular" THEN NoDiagnostics ELSE en_pipeline
    /\ en_pc' = "called"
    /\ en_summary' = None
    /\ UNCHANGED en_orchestrator
    /\ UNCHANGED enRest

\* BasePipeline.run from the check of its inputs to the validation stage: it
\* raises without sources, and calls no method of the entropy analyzer.
ModularStages ==
    /\ en_pc = "called"
    /\ en_strategy = "modular"
    /\ en_pc' = IF en_tests = {} THEN "raised" ELSE "validated"
    /\ UNCHANGED <<en_strategy, en_damping, en_tests, en_orchestrator, en_pipeline, en_summary>>
    /\ UNCHANGED enRest

\* The legacy strategy from vectorization to the validation stage: with
\* damping the orchestrator's analyzer analyzes every test.  What the
\* vectorizer does with no sources at all is left open: the run raises or
\* goes on.
LegacyStages ==
    /\ en_pc = "called"
    /\ en_strategy = "legacy"
    /\ \/ /\ en_tests = {}
          /\ en_pc' = "raised"
          /\ UNCHANGED en_orchestrator
       \/ /\ en_pc' = "validated"
          /\ en_orchestrator' =
                IF en_damping
                THEN calculate_entropy_weights(en_orchestrator, en_tests, en_tests)
                ELSE en_orchestrator
    /\ UNCHANGED <<en_strategy, en_damping, en_tests, en_pipeline, en_summary>>
    /\ UNCHANGED enRest

\* AnalysisStage.process and the return of run.
AnalysisStageProcess ==
    /\ en_pc = "validated"
    /\ en_summary' = EntropySummary(AttachedAnalyzer(en_strategy, en_damping,
                                                     en_pipeline, en_orchestrator))
    /\ en_pc' = "returned"
    /\ UNCHANGED <<en_strategy, en_damping, en_tests, en_orchestrator, en_pipeline>>
    /\ UNCHANGED enRest

EnNext == CallRun \/ ModularStages \/ LegacyStages \/ AnalysisStageProcess

SpecEntropy == EnInit /\ [][EnNext]_vars

-----------------------------------------------------------------------------
(* The claims under verification.                                          *)

\* C1: after ValidationStage.process returns, no cluster of the returned map
\* holds two tests for which the stage's tests_have_opposing_intents reports
\* a conflict, whatever the input map and the validation configuration.
ReturnedClustersAreSafe ==
    val_pc = "done" =>
        \A c \in 1..Len(val_out.validated_clusters) :
            Conflicts(val_config, val_out.validated_clusters[c][2]) = {}

\* A call of process that returned a cluster with a conflict in it.
UnsafeClusterReturned ==
    /\ val_pc = "done"
    /\ \E c \in 1..Len(val_out.validated_clusters) :
          Conflicts(val_config, val_out.validated_clusters[c][2]) # {}

\* C2: tests_have_opposing_intents("test_login_success", "test_login_failure")
\* returns (True, reason), and
\* tests_have_opposing_intents("test_login_success", "test_registration_success")
\* returns (False, "").
OppositionExamples ==
    /\ (test1 = "test_login_success" /\ test2 = "test_login_failure")
          => opp_result[1] = TRUE
    /\ (test1 = "test_login_success" /\ test2 = "test_registration_success")
          => opp_result = <<FALSE, "">>

\* The call on the success and the failure test that reported no opposition.
SuccessAndFailureNotFlagged ==
    /\ test1 = "test_login_success"
    /\ test2 = "test_login_failure"
    /\ opp_result = <<FALSE, "">>

\* C3: when run is called with validate_clusters=False and returns, for any
\* algorithm and either strategy, ValidationStage.process was not called and
\* the returned clusters are the ones clustering and post-processing produced.
ValidationDisabled ==
    (pipe_last = "run" /\ ~run_out.raised /\ ~validate_clusters) =>
        (~run_out.validated /\ run_out.clusters = run_clusters)

\* A run with validate_clusters=False that returned other clusters than
\* clustering produced.
ValidatedThoughDisabled ==
    /\ pipe_last = "run"
    /\ ~run_out.raised
    /\ ~validate_clusters
    /\ run_out.validated
    /\ run_out.clusters # run_clusters

\* C4: when a step of ResultManager.save fails, none of clusters.json,
\* redundancy_report.csv and results.json has been written by that save.
NoPartialResults ==
    rm_last = "save_raised" => save_written = {}

\* A save that raised after it wrote a complete clusters.json.
PartialResultsWritten ==
    /\ rm_last = "save_raised"
    /\ ClustersFile \in save_written
    /\ files[ClustersFile] = Content(results.id, "complete")
    /\ files[ResultsFile] # Content(results.id, "complete")

\* C5: run enters the modular strategy exactly when use_new_pipeline is True,
\* or is None and the lower-cased algorithm name is registered in the
\* PipelineFactory at the time of the call; otherwise it enters the legacy
\* strategy.  (run leaves the registry as it is, so after the call pipelines
\* is the registry of the time of the call.)
StrategySelection ==
    pipe_last = "run" =>
        /\ strategy \in {"modular", "legacy"}
        /\ strategy = "modular" <=>
              \/ use_new_pipeline = "True"
              \/ use_new_pipeline = "None" /\ lower(algorithm) \in pipelines

\* A run that chose the modular strategy by itself for a name, not in lower
\* case, that an earlier register call added.
RegisteredNameSelected ==
    /\ pipe_last = "run"
    /\ use_new_pipeline = "None"
    /\ algorithm = "Spectral"
    /\ strategy = "modular"
    /\ ~run_out.raised

\* C6: in the map ValidationStage.process returns the ids are pairwise
\* distinct and no two clusters were collapsed under one id, in either pass;
\* the ids the first pass allocates are greater than every id of the input
\* map and those the second pass allocates greater than every id of the map
\* the first pass left; the only negative id is -1.
ClusterIdsAreFresh ==
    val_pc = "done" =>
        /\ \A i \in 1..Len(val_out.new_cluster_data) :
              \A j \in 1..Len(val_out.new_cluster_data) :
                 i # j => val_out.new_cluster_data[i].cluster_id
                             # val_out.new_cluster_data[j].cluster_id
        /\ Len(val_out.validated_clusters) = Len(val_out.new_cluster_data)
        /\ Len(val_out.safe_clusters) =
              val_out.split_count
              + Cardinality({k \in 1..Len(clusters) : validate_cluster_safety(clusters[k][2])})
        /\ \A id \in Keys(val_out.safe_clusters) \ Keys(clusters) :
              \A old \in Keys(clusters) : id > old
        /\ \A i \in 1..Len(val_out.new_cluster_data) :
              "was_split" \in DOMAIN val_out.new_cluster_data[i] =>
                  \A old \in Keys(val_out.safe_clusters) :
                      val_out.new_cluster_data[i].cluster_id > old
        /\ \A id \in Keys(val_out.validated_clusters) : id < 0 => id = -1

\* A call of process in which both passes split a cluster, and the noise
\* cluster was in the input.
BothPassesSplit ==
    /\ val_pc = "done"
    /\ val_out.split_count > 0
    /\ val_out.semantic_split_count > 0

\* C7: each save that returns has written clusters.json and results.json from
\* the most recently set result, has written redundancy_report.csv exactly
\* when that result has a redundancy analysis and save_csv is true, and has
\* written nothing from another result.
SaveWritesLatestResult ==
    rm_last = "save_returned" =>
        /\ ClustersFile \in save_written
        /\ ResultsFile \in save_written
        /\ CsvFile \in save_written <=> (save_csv /\ results.redundancy # "absent")
        /\ \A f \in save_written : files[f] \in {Content(results.id, "complete"),
                                                 Content(results.id, "empty")}

\* A save that returned and left in redundancy_report.csv the records of an
\* earlier result, though the result it saved has a redundancy analysis.
StaleReportLeft ==
    /\ rm_last = "save_returned"
    /\ save_csv
    /\ results.redundancy = "empty"
    /\ files[CsvFile].state = "complete"
    /\ files[CsvFile].result # results.id
    /\ files[ResultsFile] = Content(results.id, "complete")

\* C8: for thresholds low <= moderate <= high <= very_high,
\* classify_redundancy returns the highest level whose threshold is at most
\* the score, and 'none' below low; with the defaults 0.25 is moderate,
\* 0.24999 is low and 0.60 is very high.
ClassifiesIntoHighestLevel ==
    ana_pc = "classified" =>
        /\ level =
              IF \A k \in 1..4 : <<thresholds.low, thresholds.moderate, thresholds.high,
                                    thresholds.very_high>>[k] > similarity_score
              THEN "none"
              ELSE RedundancyLevels[
                      Max({k \in 1..4 : <<thresholds.low, thresholds.moderate, thresholds.high,
                                           thresholds.very_high>>[k] <= similarity_score})]
        /\ similarity_score < thresholds.low => level = "none"
        /\ thresholds = DefaultThresholds =>
              /\ similarity_score = 25000 => level = "moderate_redundancy"
              /\ similarity_score = 24999 => level = "low_redundancy"
              /\ similarity_score = 60000 => level = "very_high_redundancy"

\* The default analyzer classifying 0.25.
ModerateAtThreshold ==
    /\ ana_pc = "classified"
    /\ thresholds = DefaultThresholds
    /\ similarity_score = 25000
    /\ level = "moderate_redundancy"

\* C9: find_redundant_tests emits exactly one record for every test of every
\* cluster of two tests or more and none for the tests of smaller clusters;
\* the similar_tests of a record are exactly the other members of the cluster
\* whose combined similarity with the test is at least the moderate
\* threshold, and its max_similarity is the largest of those similarities, 0
\* when there is none.  The thresholds are those of the analyzer's defaults
\* and of the default, strict and lenient presets, all of them positive.
RecordsMatchClusters ==
    ana_pc = "analyzed" =>
        /\ Len(redundancy_records) =
              Sum([c \in 1..Len(ana_clusters) |->
                      IF Len(ana_clusters[c][2]) >= 2 THEN Len(ana_clusters[c][2]) ELSE 0])
        /\ \A c \in 1..Len(ana_clusters) : \A p \in 1..Len(ana_clusters[c][2]) :
              IF Len(ana_clusters[c][2]) < 2
              THEN \A r \in 1..Len(redundancy_records) :
                      redundancy_records[r].test_name # ana_clusters[c][2][p]
              ELSE \E r \in 1..Len(redundancy_records) :
                      /\ redundancy_records[r].test_name = ana_clusters[c][2][p]
                      /\ \A o \in 1..Len(redundancy_records) :
                            redundancy_records[o].test_name = ana_clusters[c][2][p] => o = r
                      /\ redundancy_records[r].cluster_id = ana_clusters[c][1]
                      /\ Range(redundancy_records[r].similar_tests) =
                            {t \in Range(ana_clusters[c][2]) \ {ana_clusters[c][2][p]} :
                                Similarity(ana_clusters[c][2][p], t, semantic_vectors,
                                           coverage_vectors) >= thresholds.moderate}
                      /\ Len(redundancy_records[r].similar_tests) =
                            Cardinality(Range(redundancy_records[r].similar_tests))
                      /\ redundancy_records[r].max_similarity =
                            Max({0} \cup
                                {Similarity(ana_clusters[c][2][p], t, semantic_vectors,
                                            coverage_vectors) :
                                   t \in Range(redundancy_records[r].similar_tests)})

\* A call that found, for a test of one cluster, another test whose similarity
\* is exactly the moderate threshold, while a test alone in its cluster got no record.
SimilarAtThreshold ==
    /\ ana_pc = "analyzed"
    /\ \E r \in 1..Len(redundancy_records) :
          /\ redundancy_records[r].similar_tests # <<>>
          /\ redundancy_records[r].max_similarity = thresholds.moderate
    /\ \E c \in 1..Len(ana_clusters) : Len(ana_clusters[c][2]) = 1

\* C10: for a feature matrix of n >= 2 rows and a fixed n_clusters = k <= n,
\* cluster returns a map whose index lists are non-empty and pairwise
\* disjoint and together hold exactly 0..n-1, with exactly k ids unless
\* duplicate rows force fewer.
KMeansPartitions ==
    (km_pc = "done" /\ Len(vectors) >= 2 /\ n_clusters <= Len(vectors)) =>
        /\ ~km_out.raised
        /\ \A c \in 1..Len(km_out.clusters) : km_out.clusters[c][2] # <<>>
        /\ \A i \in 0..(Len(vectors) - 1) :
              Cardinality({<<c, p>> \in (1..Len(km_out.clusters)) \X (1..Len(vectors)) :
                              /\ p <= Len(km_out.clusters[c][2])
                              /\ km_out.clusters[c][2][p] = i}) = 1
        /\ \A c \in 1..Len(km_out.clusters) :
              Range(km_out.clusters[c][2]) \subseteq 0..(Len(vectors) - 1)
        /\ \/ Len(km_out.clusters) = n_clusters
           \/ Cardinality(Range(vectors)) < n_clusters /\ Len(km_out.clusters) < n_clusters

\* A call of cluster on three rows or more, all the same, with 1 < k < n: it
\* raised and returned no map.
ClusterRaisedOnDuplicates ==
    /\ km_pc = "done"
    /\ Len(vectors) >= 3
    /\ Cardinality(Range(vectors)) = 1
    /\ n_clusters > 1
    /\ n_clusters < Len(vectors)
    /\ km_out.raised

\* C11: with n_clusters=None on n >= 2 samples the selected k satisfies
\* min_clusters <= k <= min(max_clusters, n - 1), a call that returns has
\* returned at most n - 1 clusters, and among the scored k with the best
\* silhouette score the smallest was selected.
AutoKWithinSampleCount ==
    (ak_pc = "done" /\ Len(ak_vectors) >= 2) =>
        /\ min_clusters_arg <= optimal_k_
        /\ optimal_k_ <= Min({max_clusters, Len(ak_vectors) - 1})
        /\ ~ak_out.raised => Len(ak_out.clusters) <= Len(ak_vectors) - 1
        /\ \A k \in min_clusters..Min({max_clusters, Len(ak_vectors) - 1}) :
              (/\ ClustersFound(ak_vectors, k) > 1
               /\ \A j \in min_clusters..Min({max_clusters, Len(ak_vectors) - 1}) :
                     ClustersFound(ak_vectors, j) > 1 => ak_scores[j] <= ak_scores[k])
                 => optimal_k_ <= k

\* A call on two different samples with min_clusters = 2: it selected k = 2
\* and returned two clusters.
TwoSamplesTwoClusters ==
    /\ ak_pc = "done"
    /\ Len(ak_vectors) = 2
    /\ min_clusters_arg = 2
    /\ optimal_k_ = 2
    /\ ~ak_out.raised
    /\ Len(ak_out.clusters) = 2

\* C12: when postprocess_clusters returns, no cluster has fewer than 2 tests,
\* the ids are exactly 0..m-1, every input test is in exactly one cluster, and
\* the merge count is the number of input clusters of fewer than 2 tests.
MergeLeavesNoSmallCluster ==
    mg_pc = "done" =>
        /\ \A c \in 1..Len(mg_out.clusters) : Len(mg_out.clusters[c][2]) >= 2
        /\ Keys(mg_out.clusters) = 0..(Len(mg_out.clusters) - 1)
        /\ Len(mg_out.clusters) = Cardinality(Keys(mg_out.clusters))
        /\ Range(TestsOf(mg_out.clusters)) = Range(TestsOf(mg_clusters))
        /\ Len(TestsOf(mg_out.clusters)) = Len(TestsOf(mg_clusters))
        /\ mg_out.merge_count =
              Cardinality({c \in 1..Len(mg_clusters) : Len(mg_clusters[c][2]) < 2})

\* A call on clusters of one test each: they came back as they were.
SingletonsReturned ==
    /\ mg_pc = "done"
    /\ Len(mg_clusters) >= 2
    /\ \A c \in 1..Len(mg_clusters) : Len(mg_clusters[c][2]) = 1
    /\ mg_out.clusters = mg_clusters
    /\ mg_out.merge_count = 0


\* The min_samples C13 states for n samples on a clusterer configured with a value.
StatedMinSamples(n, configured) ==
    IF n > 100 THEN Max({5, (2 * n) \div 100})
    ELSE IF n > 50 THEN Max({3, (5 * n) \div 100})
    ELSE configured

\* C13: after any calls, a call of cluster with n samples uses max(5, floor(0.02 n))
\* for n > 100, max(3, floor(0.05 n)) for 50 < n <= 100 and otherwise the value
\* configured at construction; with n below that value it returns {-1: [0..n-1]}.
MinSamplesFromSizeAndConfiguration ==
    db_pc = "called" =>
        /\ db_out.min_samples = StatedMinSamples(db_n_samples, db_min_samples_arg)
        /\ db_n_samples < StatedMinSamples(db_n_samples, db_min_samples_arg)
              => db_out.all_noise /\ db_out.clusters = AllNoise(db_n_samples)
        /\ db_out.all_noise
              => db_n_samples < StatedMinSamples(db_n_samples, db_min_samples_arg)

\* A call with at most 50 samples on a clusterer whose min_samples an earlier
\* call has adjusted.
SmallSuiteAfterAdjustment ==
    /\ db_pc = "called"
    /\ db_n_samples <= 50
    /\ db_min_samples # db_min_samples_arg
    /\ db_out.min_samples = db_min_samples


\* C14: in any sequence of fit and transform calls, a transform raises the
\* not-fitted error exactly when no fit has completed before it, and a transform
\* that returns leaves the vocabulary and the IDF weights as they were.
TransformNeedsCompletedFit ==
    [][tv_last' = "transform" =>
          /\ (tv_result'.error = NotFittedError) <=> ~tv_fit_completed'
          /\ tv_result'.error = "" => vocabulary_' = vocabulary_ /\ idf_' = idf_]_vars

\* A transform that returned on a vectorizer whose fit kept no token.
TransformOnEmptyVocabulary ==
    /\ tv_last = "transform"
    /\ tv_fit_completed
    /\ vocabulary_ = Some(<<>>)
    /\ tv_result.error = ""
    /\ Len(tv_documents) > 0


\* C15: a fit with the default min_df and max_df on one document that has a
\* token gives a vocabulary that is not empty, and transform of that document
\* then returns a matrix of shape (1, size of the vocabulary).
SingleDocumentVocabularyNotEmpty ==
    ( /\ tv_min_df = default_min_df
      /\ tv_max_df = default_max_df
      /\ tv_fit_completed
      /\ Len(tv_fit_documents) = 1
      /\ TokensOfDocument[tv_fit_documents[1]] # <<>> )
    => /\ vocabulary_ # Some(<<>>)
       /\ (tv_last = "transform" /\ tv_documents = tv_fit_documents)
             => tv_result.shape = <<1, Len(vocabulary_[1])>>

\* A default vectorizer fitted on one document that has tokens: none was kept.
SingleDocumentFitKeepsNothing ==
    /\ tv_last = "fit"
    /\ tv_min_df = default_min_df
    /\ tv_max_df = default_max_df
    /\ tv_max_features = default_max_features
    /\ document_count_ = 1
    /\ tv_fit_documents = <<"function getUser()">>
    /\ vocabulary_ = Some(<<>>)


\* C16: get_clusterer and get_reducer instantiate the class most recently
\* registered under exactly the name given and raise ValueError for a name that
\* is not registered; register_clusterer and register_reducer raise TypeError
\* for a class that does not implement the interface and leave both registries
\* as they were.
RegistriesServeLatestClass ==
    [][ /\ fac_last' = "get" =>
              IF LatestClass(fac_registered', fac_kind', fac_name') = NoClass
              THEN fac_result' = FactoryRaised("ValueError")
              ELSE fac_result' =
                      FactoryReturned(LatestClass(fac_registered', fac_kind', fac_name'))
        /\ (fac_last' = "register"
              /\ fac_class' \notin (IF fac_kind' = "clusterer" THEN ClustererClasses
                                    ELSE ReducerClasses))
              => /\ fac_result' = FactoryRaised("TypeError")
                 /\ clusterers' = clusterers
                 /\ reducers' = reducers
        /\ (fac_last' = "register"
              /\ fac_class' \in (IF fac_kind' = "clusterer" THEN ClustererClasses
                                 ELSE ReducerClasses))
              => fac_result'.raised = "" ]_vars

\* get_clusterer("kmeans") after "kmeans" was registered twice: the class of the
\* second registration was instantiated.
LatestRegistrationServed ==
    /\ fac_last = "get"
    /\ fac_kind = "clusterer"
    /\ fac_name = "kmeans"
    /\ fac_registered = << <<"clusterer", "kmeans", "SpectralClusterer">>,
                           <<"clusterer", "kmeans", "DBSCANClusterer">> >>
    /\ fac_result = FactoryReturned("DBSCANClusterer")


\* The registrations, and the names of the import, that differ from a name in
\* letter case at most.
SameNameRegistrations(history, name) ==
    {i \in 1..Len(history) : lower(history[i][1]) = lower(name)}

SameNameAtImport(name) == {key \in DOMAIN PipelinesAtImport : key = lower(name)}

\* C17: create of a name gives the pipeline class registered last under a name
\* that differs from it in letter case at most, be it registered at import or
\* through register; for a name never registered it raises ValueError and the
\* registry stays as it was.
CreateIgnoresLetterCase ==
    [][pf_last' = "create" =>
          /\ pf_pipelines' = pf_pipelines
          /\ IF SameNameRegistrations(pf_registered', pf_algorithm') # {}
             THEN pf_result' = FactoryReturned(
                     pf_registered'[Max(SameNameRegistrations(pf_registered', pf_algorithm'))][2])
             ELSE IF SameNameAtImport(pf_algorithm') # {}
             THEN pf_result' = FactoryReturned(PipelinesAtImport[lower(pf_algorithm')])
             ELSE pf_result' = FactoryRaised("ValueError")]_vars

\* create("spectral") after register("SPECTRAL", SpectralPipeline).
RegisteredInUpperCaseCreatedInLower ==
    /\ pf_last = "create"
    /\ pf_algorithm = "spectral"
    /\ pf_registered = << <<"SPECTRAL", "SpectralPipeline">> >>
    /\ pf_result = FactoryReturned("SpectralPipeline")


\* A vector that was supplied and whose length is not the dimension.
SuppliedWithWrongLength(vector_map, dim) ==
    \E t \in DOMAIN vector_map : vector_map[t] # None /\ Len(vector_map[t][1]) # dim

\* C18: without normalization split_features(combine_features(sem, cov)) gives
\* back the vectors that were supplied, for the dimensions (128, 512) as for any
\* other, and combine_features raises whenever a supplied vector has a length
\* other than the configured dimension.
SplitUndoesCombine ==
    /\ fc_pc \in {"combined", "split"} =>
          (fc_combined.raised <=>
              \/ SuppliedWithWrongLength(fc_semantic_vectors, fc_semantic_dim)
              \/ SuppliedWithWrongLength(fc_coverage_vectors, fc_coverage_dim))
    /\ (fc_pc = "split" /\ ~fc_normalize) =>
          \A t \in DOMAIN fc_split :
              /\ fc_semantic_vectors[t] # None
                    => fc_split[t][1] = Scaled(fc_semantic_vectors[t][1], 1)
              /\ fc_coverage_vectors[t] # None
                    => fc_split[t][2] = Scaled(fc_coverage_vectors[t][1], 1)

\* A split, without normalization, of 128 and 512 entries that are not all zero.
DefaultDimensionsSplit ==
    /\ fc_pc = "split"
    /\ ~fc_normalize
    /\ fc_semantic_dim = default_semantic_dim
    /\ fc_coverage_dim = default_coverage_dim
    /\ fc_semantic_vectors["testA"] = Some(PatternVector(default_semantic_dim, 1))
    /\ fc_coverage_vectors["testA"] = Some(PatternVector(default_coverage_dim, 2))
    /\ fc_split["testA"][2] = Scaled(PatternVector(default_coverage_dim, 2), 1)


\* C19: extract_test_name gives "Auth" for "tests/Unit/AuthTest.php", "User" for
\* "/path/to/UserTest.php", "testCanLogin" for "UserTest::testCanLogin" and
\* nothing for the empty string.
TestNameOfPath ==
    xn_pc = "done" =>
        /\ test_path = "tests/Unit/AuthTest.php" => xn_result = Some("Auth")
        /\ test_path = "/path/to/UserTest.php" => xn_result = Some("User")
        /\ test_path = "UserTest::testCanLogin" => xn_result = Some("testCanLogin")
        /\ test_path = "" => xn_result = None

\* The name of "tests/Unit/AuthTest.php" came out with its Test.
FileNameKeepsTest ==
    /\ xn_pc = "done"
    /\ test_path = "tests/Unit/AuthTest.php"
    /\ xn_result = Some("AuthTest")

\* C20: the tokens of "getUserByEmail" hold get, user, by, email and
\* getuserbyemail; those of "test_user_can_create_post" hold test, user, can,
\* create and post; the, is and and are never among the tokens; the empty
\* text has no tokens.
TokensOfIdentifiers ==
    (tk_pc = "done" /\ tk_lowercase) =>
        /\ tk_text = "getUserByEmail"
              => {"get", "user", "by", "email", "getuserbyemail"} \subseteq Range(tk_tokens)
        /\ tk_text = "test_user_can_create_post"
              => {"test", "user", "can", "create", "post"} \subseteq Range(tk_tokens)
        /\ Range(tk_tokens) \cap {"the", "is", "and"} = {}
        /\ tk_text = "" => tk_tokens = <<>>

\* The bare identifier "getUserByEmail" gave no token at all.
BareIdentifierGivesNothing ==
    /\ tk_pc = "done"
    /\ tk_lowercase
    /\ tk_text = "getUserByEmail"
    /\ tk_tokens = <<>>


OnlyTwoOrThreeDimensions ==
    tsne_pc = "done" =>
        IF tsne_n_dims \in {2, 3}
        THEN ~tsne_out.raised /\ tsne_out.fitted
        ELSE tsne_out.raised /\ ~tsne_out.fitted

\* A reduce to one dimension: nothing raised, the estimator fitted with
\* n_components = 1.
OneDimensionEmbedded ==
    /\ tsne_pc = "done"
    /\ tsne_n_dims = 1
    /\ tsne_n_samples = 3
    /\ tsne_out = [raised |-> FALSE, fitted |-> TRUE, n_components |-> 1, perplexity |-> 2]

\* C23: every group _split_by_semantics returns is coherent: no group holds two
\* tests that _are_semantically_opposing reports as opposing, whichever test
\* is popped as the seed of a group.
GroupsAreCoherent ==
    split_pc = "done" =>
        \A g \in 1..Len(split_groups) :
            \A i, j \in 1..Len(split_groups[g]) :
                i # j => ~are_semantically_opposing(split_groups[g][i], split_groups[g][j])

\* The seed testMinValue opposes neither login test, and both are added to its
\* group although they oppose each other.
OpposingPairInOneGroup ==
    /\ split_pc = "done"
    /\ Range(split_tests) = {"test_login_success", "test_login_failure", "testMinValue"}
    /\ Len(split_groups) = 1
    /\ split_groups[1][1] = "testMinValue"
    /\ are_semantically_opposing("test_login_success", "test_login_failure")
    /\ ~are_semantically_opposing("test_login_success", "testMinValue")
    /\ ~are_semantically_opposing("test_login_failure", "testMinValue")

\* C24: the integer ValidationStage.process returns is the number of clusters
\* produced by splitting: the new sub-clusters the legacy safety pass stored
\* plus the new clusters the semantic pass created.
ReturnedCountIsClustersProduced ==
    val_pc = "done" =>
        val_out.returned_count =
            Cardinality(Keys(val_out.safe_clusters) \ Keys(clusters))
            + Cardinality({i \in 1..Len(val_out.new_cluster_data) :
                             "was_split" \in DOMAIN val_out.new_cluster_data[i]})

\* The legacy pass stored one new sub-cluster, the semantic pass split it into
\* two new clusters, three new clusters in all, and process returned 2.
TwoNewClustersCountedOnce ==
    /\ val_pc = "done"
    /\ Cardinality(Keys(val_out.safe_clusters) \ Keys(clusters)) = 1
    /\ val_out.semantic_split_count = 1
    /\ Cardinality({i \in 1..Len(val_out.new_cluster_data) :
                      "was_split" \in DOMAIN val_out.new_cluster_data[i]}) = 2
    /\ val_out.returned_count = 2

\* C25: tests_have_opposing_intents is symmetric: the call on (test1, test2)
\* reports an opposition exactly when the call on (test2, test1) does; hence
\* is_safe of validate_cluster does not depend on the order in which the
\* cluster lists its tests.
OpposingIntentsSymmetric ==
    test1 # "" =>
        /\ opp_result[1]
              = tests_have_opposing_intents(intent_cache, opp_config, test2, test1)[1]
        /\ validate_cluster(opp_config, <<test1, test2>>).is_safe
              = validate_cluster(opp_config, <<test2, test1>>).is_safe

\* The error assertion compared with the success assertion is an opposition;
\* the same two tests in the other order are none, and the cluster that lists
\* them in that order is safe.
OppositionInOneOrderOnly ==
    /\ test1 = "testAssertError404"
    /\ test2 = "testAssertSuccess"
    /\ opp_result = <<TRUE, "Error assertion vs success assertion">>
    /\ tests_have_opposing_intents(intent_cache, opp_config, test2, test1) = <<FALSE, "">>
    /\ ~validate_cluster(opp_config, <<test1, test2>>).is_safe
    /\ validate_cluster(opp_config, <<test2, test1>>).is_safe

\* C26: with thresholds 0 < low <= moderate <= high <= very_high, every record
\* find_redundant_tests emits has the status 'none' exactly when its
\* similar_tests is empty, and never 'low_redundancy'; so summarize_redundancy
\* counts as redundant exactly the records whose similar_tests is not empty.
NoneExactlyWhenNothingSimilar ==
    (sum_pc = "summarized" /\ 0 < thresholds.low /\ thresholds.low <= thresholds.moderate
        /\ thresholds.moderate <= thresholds.high /\ thresholds.high <= thresholds.very_high) =>
        /\ \A r \in 1..Len(redundancy_records) :
              /\ redundancy_records[r].redundancy_status = "none"
                    <=> redundancy_records[r].similar_tests = <<>>
              /\ redundancy_records[r].redundancy_status # "low_redundancy"
        /\ red_summary.redundant_tests =
              Cardinality({r \in 1..Len(redundancy_records) :
                             redundancy_records[r].similar_tests # <<>>})
        /\ red_summary.level_counts["low_redundancy"] = 0

\* A summary of records of which one has nothing similar although another test
\* of its cluster is as similar to it as the low threshold, and one has a
\* similar test at a moderate level.
LowSimilarityRecordedAsNone ==
    /\ sum_pc = "summarized"
    /\ \E r \in 1..Len(redundancy_records) : \E c \in 1..Len(ana_clusters) :
          /\ redundancy_records[r].cluster_id = ana_clusters[c][1]
          /\ redundancy_records[r].similar_tests = <<>>
          /\ redundancy_records[r].redundancy_status = "none"
          /\ \E t \in Range(ana_clusters[c][2]) \ {redundancy_records[r].test_name} :
                Similarity(redundancy_records[r].test_name, t, semantic_vectors,
                           coverage_vectors) \in thresholds.low..(thresholds.moderate - 1)
    /\ \E r \in 1..Len(redundancy_records) :
          redundancy_records[r].redundancy_status = "moderate_redundancy"
    /\ red_summary.redundant_tests \in 1..(red_summary.total_tests - 1)

\* The places <<cluster, position>> of a cluster map at which a test stands.
PlacesOf(cluster_map, test) ==
    {<<c, p>> \in (1..Len(cluster_map)) \X (1..MaxTests) :
        p <= Len(cluster_map[c][2]) /\ cluster_map[c][2][p] = test}

\* The tests of an input cluster that the returned map does not hold.
AbsentFrom(validated_clusters, test_names) ==
    {t \in Range(test_names) : PlacesOf(validated_clusters, t) = {}}

\* C27: the clusters of the input map being pairwise disjoint, process puts
\* every input test at exactly one place of the returned map, or at none; a
\* test is absent only when the legacy validator declared its cluster unsafe
\* and the test ended in a split group of fewer than 2 tests; every test of
\* the returned map is a test of the input.
TestsKeptOnceOrDroppedBySplit ==
    val_pc = "done" =>
        /\ \A k \in 1..Len(clusters) :
              /\ \A t \in Range(clusters[k][2]) :
                    Cardinality(PlacesOf(val_out.validated_clusters, t)) <= 1
              /\ AbsentFrom(val_out.validated_clusters, clusters[k][2]) # {} =>
                    /\ ~validate_cluster_safety(clusters[k][2])
                    /\ \E subclusters \in split_by_semantics(clusters[k][2]) :
                          AbsentFrom(val_out.validated_clusters, clusters[k][2]) =
                             UNION {Range(subclusters[g]) :
                                      g \in {i \in 1..Len(subclusters) : Len(subclusters[i]) < 2}}
        /\ \A c \in 1..Len(val_out.validated_clusters) :
              Range(val_out.validated_clusters[c][2])
                 \subseteq UNION {Range(clusters[k][2]) : k \in 1..Len(clusters)}

\* A call in which the legacy pass split a cluster of three tests into a group
\* of two, which is in the returned map, and a group of one, whose test is not,
\* while the tests of the other cluster were kept.
SingletonGroupDropped ==
    /\ val_pc = "done"
    /\ Len(clusters) = 2
    /\ \E k \in 1..Len(clusters) :
          /\ Len(clusters[k][2]) = 3
          /\ Cardinality(AbsentFrom(val_out.validated_clusters, clusters[k][2])) = 1
    /\ \E k \in 1..Len(clusters) :
          /\ AbsentFrom(val_out.validated_clusters, clusters[k][2]) = {}

\* C28: the intent cache is transparent: after any calls of extract_test_intent,
\* tests_have_opposing_intents and validate_cluster, the result of the last
\* call is what a validator without a cache returns, every cached intent is
\* the one computed from its name, and the cache of a validator holds only
\* the names that validator was called with, none that another one cached.
IntentCacheTransparent ==
    /\ sv_call # NoCall => sv_result = UncachedResult(sv_config, sv_call)
    /\ \A v \in Validators :
          /\ DOMAIN sv_caches[v] = sv_seen[v]
          /\ \A n \in DOMAIN sv_caches[v] : sv_caches[v][n] = IntentTable[n]

\* validate_cluster answered from a cache that holds both names, while the
\* other validator, called with another name only, has neither of them.
AnsweredFromCache ==
    /\ sv_call = Call("validator_a", "validate_cluster",
                      <<"testAssertError404", "testAssertSuccess">>)
    /\ ~sv_result.is_safe
    /\ DOMAIN sv_caches["validator_a"] = {"testAssertError404", "testAssertSuccess"}
    /\ DOMAIN sv_caches["validator_b"] = {"test_login_success"}

\* C29: cluster of KMeansClusterer is history-independent: the k a call
\* selects is the k an instance just built with the same constructor
\* parameters selects for that input, and the min_clusters the search starts
\* from is the configured one adjusted for this input alone, whatever calls
\* were made before on the instance.
ClusterIsHistoryIndependent ==
    (ak_pc = "done" /\ Len(ak_vectors) >= 2) =>
        /\ optimal_k_ = find_optimal_k(min_clusters_arg, max_clusters, ak_vectors, ak_scores)
        /\ min_clusters = AdjustedMinClusters(min_clusters_arg, Cardinality(Range(ak_vectors)))

\* Built with min_clusters = 3, the instance was called on a matrix of two
\* different rows and then on four samples of three different rows: the later
\* call searched from 2 and selected k = 2, where a new instance selects 3.
EarlierCallLoweredMinClusters ==
    /\ ak_pc = "done"
    /\ min_clusters_arg = 3
    /\ min_clusters = 2
    /\ Len(ak_vectors) = 4
    /\ Cardinality(Range(ak_vectors)) = 3
    /\ optimal_k_ = 2
    /\ find_optimal_k(min_clusters_arg, max_clusters, ak_vectors, ak_scores) = 3

\* C30: in a run of the modular strategy the attached EntropyAnalyzer has
\* analyzed no test when the analysis stage is reached, so entropy_summary is
\* the 'No entropy analysis data available' marker and never statistics;
\* statistics are returned only when calculate_entropy_weights has analyzed
\* at least one test, as in the legacy strategy with damping.
ModularRunHasNoEntropyData ==
    /\ (en_strategy = "modular" /\ en_pc \in {"validated", "returned"}) =>
          en_pipeline = NoDiagnostics
    /\ (en_strategy = "modular" /\ en_pc = "returned") => en_summary = Some(NoDataMarker)
    /\ (en_pc = "returned" /\ en_summary \notin {None, Some(NoDataMarker)}) =>
          /\ en_strategy = "legacy"
          /\ en_damping
          /\ en_tests # {}
          /\ en_summary = Some([total_tests |-> Cardinality(en_tests)])

\* A modular run that returned the marker, made after a legacy run with
\* damping had left statistics in the orchestrator's analyzer.
MarkerAfterLegacyStatistics ==
    /\ en_pc = "returned"
    /\ en_strategy = "modular"
    /\ en_tests = {"testA", "testB"}
    /\ en_orchestrator = {"testA"}
    /\ en_summary = Some(NoDataMarker)

=============================================================================
